---- MODULE Spec2Model ----
(***************************************************************************)
(* Lazgi Hands: the Visualizer's medallion pool (visualizer.js), the       *)
(* template matcher (templates.js) and the per-side hand velocity cache    *)
(* (main.js), modelled as state machines.                                  *)
(*                                                                         *)
(* Numbers are fixed point.  A medallion's life and decay are counted in   *)
(* thousandths (life 1 is LifeOne), a p.random() draw that is compared     *)
(* with the spawn chance in hundredths, a landmark coordinate in           *)
(* thousandths of the normalised frame and a distance in units of 1e-4.    *)
(***************************************************************************)
EXTENDS Integers, Sequences, FiniteSets, TLC

VARIABLES
  medallions,   \* Visualizer.medallions: the pool, oldest spawn first
  mode,         \* Visualizer.mode
  hands,        \* Visualizer.hands: the hand list of the last landmark callback
  nextId,       \* ghost: serial number the next spawned medallion gets
  ticks,        \* ghost: number of p.draw calls so far
  frames,       \* ghost: number of updateHands calls so far
  switches,     \* ghost: number of setMode calls so far
  phase,        \* scenario position: "free", or "hands"/"draw" in the frame loop
  decayRule,    \* scenario: the rule the run's random stream gives decays by
  lastOp,       \* ghost: the operation that returned last
  sizeBefore,   \* ghost: pool size when the last operation was entered
  evictions,    \* ghost: what the last updateHands shifted out, in order
  expired,      \* ghost: ids the last updateMedallions spliced out
  drawn,        \* ghost: the medallions the last drawMedallions drew
  awaiting,     \* ghost: a setMode happened and no p.draw ran since
  switchMark,   \* ghost: nextId when the last setMode ran
  afterSwitch,  \* ghost: the last p.draw was the first one after a setMode
  mOp,          \* matcher: the function called last
  mHand,        \* matcher: the hand argument of that call
  mTemplate,    \* matcher: the template argument (library index, 0 = absent)
  mResult,      \* matcher: what the call returned
  prevLandmarks,\* main.js prevLandmarks: the baseline of each side
  handRecord,   \* the hand record the two-tracker app last measured
  vCall,        \* ghost: the last calculateHandVelocity call and its result
  lastFrame,    \* ghost: the landmarks the previous frame delivered, per stream
  engine,       \* which version of the SoundEngine class the application loads
  soundEngine,  \* the SoundEngine: its fields and the targets of its ramps
  sLog,         \* ghost: the ramps and note triggers the last call issued
  sCall,        \* ghost: the last SoundEngine call and its arguments
  sCalls,       \* ghost: number of SoundEngine calls so far
  app,          \* which application runs: the two-tracker or the holistic one
  state,        \* main.js state: mode, buttons, current results, match score
  matchScore,   \* Visualizer.matchScore, what drawMatchIndicator draws
  tracker,      \* the loops: running flag, next pass scheduled or not
  aCall,        \* ghost: the last pass of a loop and what it delivered
  events,       \* ghost: number of loop passes and stops so far
  vTemplate,    \* Visualizer.template, what drawTemplate draws
  kCall,        \* ghost: the last key pressed and the state it found
  loop,         \* a tracker's loop in detail: passes queued, sends in flight
  gCall,        \* ghost: the last call of an angle function and its result
  audio,        \* what the SoundEngine's start() built and what sounds
  handlers,     \* the click handlers waiting at an await, and their count
  piece         \* one medallion in detail, and the record it was spawned as

visVars == <<medallions, mode, hands, nextId, ticks, frames, switches, phase,
             decayRule, lastOp, sizeBefore, evictions, expired, drawn, awaiting,
             switchMark, afterSwitch>>

matchVars == <<mOp, mHand, mTemplate, mResult>>

velVars == <<prevLandmarks, handRecord, vCall, lastFrame>>

sndVars == <<engine, soundEngine, sLog, sCall, sCalls>>

\* the application around them
appVars == <<app, state, matchScore, tracker, aCall, events>>

\* what the Visualizer, the matcher and the velocity cache leave alone
\* the controls and the lifecycles
ctlVars == <<vTemplate, kCall, loop, gCall, audio, handlers, piece>>

restVars == <<sndVars, appVars, ctlVars>>

vars == <<visVars, matchVars, velVars, restVars>>

-----------------------------------------------------------------------------
(* Program constants of the Visualizer *)

PoolCap == 80              \* if (this.medallions.length > 80)
LifeOne == 1000            \* life: 1
DecayLo == 8               \* decay: this.p.random(0.008, 0.02)
DecayHi == 20
SpawnChanceLearn == 12     \* this.mode === 'perform' ? 0.25 : 0.12
SpawnChancePerform == 25
TipsPerHand == 5           \* landmarks 4, 8, 12, 16, 20

(* Bounds of the exploration *)

MaxTicks == 2              \* p.draw calls in a free run
MaxFrames == 2             \* landmark callbacks in a free run
MaxSwitches == 1           \* setMode calls in a free run
ScenarioFrames == 200      \* frames of the saturation scenario
MaxShift == 6              \* hands are displaced by up to MaxShift steps
MaxCalls == 2               \* SoundEngine calls in a run
MaxEvents == 2              \* loop passes and stops in a session
MaxKeys == 4                \* key presses in a run
MaxLifecycle == 3           \* start() and stop() calls on a tracker
MaxClicks == 4               \* clicks on the Sound and the Synth button
MaxToggles == 2              \* clicks on the Sound button between frames

Modes == {"learn", "perform"}

Min(a, b) == IF a < b THEN a ELSE b
Max(a, b) == IF a > b THEN a ELSE b

-----------------------------------------------------------------------------
(* The random source.  p.random() is sampled from bounded streams: one     *)
(* stream of spawn draws per landmark callback (a value per fingertip) and *)
(* one rule giving each spawned medallion its decay.                       *)

MaxTips == 2 * TipsPerHand

CoinStreams ==
  { [j \in 1..MaxTips |-> r] : r \in {5, 20} }
    \cup { [j \in 1..MaxTips |-> IF j = 1 THEN 5 ELSE 50] }

AlwaysHit == [j \in 1..MaxTips |-> 0]

DecayRules == {"slow", "even", "fast", "mixed"}

DecayDraw(rule, id) ==
  CASE rule = "slow" -> DecayLo
    [] rule = "even" -> 10
    [] rule = "fast" -> DecayHi - 1
    [] OTHER -> IF id % 3 = 1 THEN DecayHi - 1
                ELSE IF id % 3 = 2 THEN DecayLo ELSE 10

HandLists == { <<>>, <<"Right">>, <<"Left", "Right">> }

-----------------------------------------------------------------------------
(* Visualizer.spawnMedallion *)

SpawnChance(m) == IF m = "perform" THEN SpawnChancePerform ELSE SpawnChanceLearn

\* id and born (the number of render ticks before the spawn) are ghost fields
NewMedallion(id, decay, now) ==
  [id |-> id, life |-> LifeOne, decay |-> decay, born |-> now]

OverCapLoose(pool) == Len(pool) > PoolCap + 1
OverCapEarly(pool) == Len(pool) >= PoolCap
OverCap(pool) == Len(pool) > PoolCap

EvictNewest(pool) == SubSeq(pool, 1, Len(pool) - 1)
Evict(pool) == Tail(pool)

\* ghost: the entry of `before` that `after`, one entry shorter, lacks
Dropped(before, after) ==
  before[CHOOSE i \in 1..Len(before) :
           /\ i > Len(after) \/ after[i].id # before[i].id
           /\ \A k \in 1..(i - 1) : after[k].id = before[k].id]

\* ghost: the serial number of the earliest-spawned entry of the pool
OldestId(pool) ==
  pool[CHOOSE i \in 1..Len(pool) :
         \A k \in 1..Len(pool) : pool[k].id >= pool[i].id].id

\* st = [pool, nextId, evictions]: push the new medallion, then shift when
\* the pool is over the cap.  The eviction record is ghost state.
SpawnMedallion(st, decay) ==
  LET pushed == Append(st.pool, NewMedallion(st.nextId, decay, ticks))
  IN IF OverCap(pushed)
       THEN [pool |-> Evict(pushed),
             nextId |-> st.nextId + 1,
             evictions |-> Append(st.evictions,
                [id |-> Dropped(pushed, Evict(pushed)).id,
                 life |-> Dropped(pushed, Evict(pushed)).life,
                 oldest |-> OldestId(pushed),
                 fresher |-> \E i \in 1..Len(pushed) :
                    pushed[i].life < Dropped(pushed, Evict(pushed)).life])]
       ELSE [pool |-> pushed, nextId |-> st.nextId + 1,
             evictions |-> st.evictions]

(* Visualizer.updateHands: for every hand, for every fingertip, one draw   *)
(* against the mode's spawn chance.                                        *)
RECURSIVE SpawnLoop(_, _, _, _, _, _)
SpawnLoop(j, nTips, m, st, coins, rule) ==
  IF j > nTips THEN st
  ELSE SpawnLoop(j + 1, nTips, m,
                 IF coins[j] < SpawnChance(m)
                   THEN SpawnMedallion(st, DecayDraw(rule, st.nextId))
                   ELSE st,
                 coins, rule)

UpdateHandsResult(hs, coins, rule) ==
  SpawnLoop(1, Len(hs) * TipsPerHand, mode,
            [pool |-> medallions, nextId |-> nextId, evictions |-> <<>>],
            coins, rule)

-----------------------------------------------------------------------------
(* Visualizer.updateMedallions: backwards over the pool, age every entry   *)
(* and splice the expired ones out.                                        *)

AgeUp(m) == [m EXCEPT !.life = @ + m.decay]
Age(m) == [m EXCEPT !.life = @ - m.decay]

ExpiredStrict(m) == m.life < 0
Expired(m) == m.life <= 0

Splice(pool, i) == SubSeq(pool, 1, i - 1) \o SubSeq(pool, i + 1, Len(pool))

RECURSIVE UpdateLoop(_, _)
UpdateLoop(pool, i) ==
  IF i < 1 THEN pool
  ELSE IF Expired(Age(pool[i]))
         THEN UpdateLoop(Splice(pool, i), i - 1)
         ELSE UpdateLoop([pool EXCEPT ![i] = Age(pool[i])], i - 1)

UpdateMedallions(pool) == UpdateLoop(pool, Len(pool))

Ids(pool) == {pool[i].id : i \in 1..Len(pool)}

(* Visualizer.setMode *)
KeepPool(pool) == pool
ClearedPool(pool) == <<>>

-----------------------------------------------------------------------------
(* A session in progress: n medallions spawned between two render ticks    *)
(* (by ceil(n/10) two-hand callbacks), the first `old` of them `age` ticks *)
(* ago and the rest since the last tick.                                   *)

SessionPool(n, old, age, rule) ==
  [i \in 1..n |->
     [id |-> i,
      life |-> LifeOne - (IF i <= old THEN age ELSE 0) * DecayDraw(rule, i),
      decay |-> DecayDraw(rule, i),
      born |-> IF i <= old THEN 0 - age ELSE 0]]

\* <<n, old, age, rule>>; the first is the pool the constructor leaves
SessionShapes ==
  { <<0, 0, 0, "mixed">>,
    <<4, 4, 52, "mixed">>,
    <<4, 4, 99, "even">>,
    <<PoolCap - 1, 0, 0, "mixed">>,
    <<PoolCap - 1, 5, 52, "mixed">>,
    <<PoolCap - 1, PoolCap - 1, 52, "mixed">>,
    <<PoolCap - 1, 5, 99, "even">> }

SessionPools == { SessionPool(q[1], q[2], q[3], q[4]) : q \in SessionShapes }

LivePool(pool) == \A i \in 1..Len(pool) : pool[i].life > 0

-----------------------------------------------------------------------------
(* templates.js: the template library.  Coordinates are kept in            *)
(* thousandths of the frame; the source writes them with two decimals.     *)

\* generateSunSalutation(), in hundredths  (lines 56-91)
SunSalutation ==
  << <<50, 80>>, <<35, 75>>, <<28, 65>>, <<22, 55>>,
     <<18, 45>>, <<42, 65>>, <<38, 50>>, <<35, 35>>,
     <<32, 20>>, <<50, 62>>, <<50, 45>>, <<50, 28>>,
     <<50, 12>>, <<58, 65>>, <<62, 50>>, <<65, 35>>,
     <<68, 20>>, <<65, 72>>, <<72, 60>>, <<78, 50>>,
     <<82, 42>> >>

\* generateTremblingFlame(), in hundredths  (lines 93-123)
TremblingFlame ==
  << <<50, 85>>, <<32, 78>>, <<25, 68>>, <<22, 55>>,
     <<20, 42>>, <<40, 68>>, <<38, 52>>, <<36, 36>>,
     <<35, 22>>, <<50, 65>>, <<50, 48>>, <<50, 32>>,
     <<50, 15>>, <<60, 68>>, <<62, 52>>, <<64, 36>>,
     <<66, 22>>, <<68, 75>>, <<74, 62>>, <<78, 50>>,
     <<82, 38>> >>

\* generateBrokenAngle(), in hundredths  (lines 125-160)
BrokenAngle ==
  << <<50, 75>>, <<42, 68>>, <<38, 58>>, <<40, 50>>,
     <<45, 45>>, <<45, 60>>, <<42, 48>>, <<48, 40>>,
     <<55, 38>>, <<52, 58>>, <<52, 45>>, <<58, 38>>,
     <<65, 35>>, <<58, 60>>, <<60, 50>>, <<65, 45>>,
     <<72, 42>>, <<65, 65>>, <<70, 58>>, <<75, 55>>,
     <<80, 52>> >>

\* generateFingerFlutter(), in hundredths  (lines 162-192)
FingerFlutter ==
  << <<50, 82>>, <<30, 72>>, <<22, 60>>, <<18, 48>>,
     <<15, 38>>, <<38, 65>>, <<32, 48>>, <<28, 32>>,
     <<25, 18>>, <<50, 62>>, <<50, 42>>, <<50, 25>>,
     <<50, 8>>, <<62, 65>>, <<68, 48>>, <<72, 32>>,
     <<75, 18>>, <<70, 72>>, <<78, 60>>, <<82, 48>>,
     <<85, 38>> >>

\* generateClosedLotus(), in hundredths  (lines 194-224)
ClosedLotus ==
  << <<50, 85>>, <<40, 78>>, <<38, 68>>, <<42, 58>>,
     <<48, 52>>, <<45, 70>>, <<44, 58>>, <<46, 46>>,
     <<50, 38>>, <<50, 68>>, <<50, 55>>, <<50, 42>>,
     <<50, 32>>, <<55, 70>>, <<56, 58>>, <<54, 46>>,
     <<50, 38>>, <<60, 75>>, <<62, 65>>, <<58, 55>>,
     <<52, 48>> >>

Point(h) == [x |-> 10 * h[1], y |-> 10 * h[2]]

Landmarks(hundredths) == [i \in 1..Len(hundredths) |-> Point(hundredths[i])]

templates ==
  << Landmarks(SunSalutation), Landmarks(TremblingFlame),
     Landmarks(BrokenAngle), Landmarks(FingerFlutter),
     Landmarks(ClosedLotus) >>

NumLandmarks == 21         \* for (let i = 0; i < 21; i++)
NormConst == 2500          \* 1 - avgDistance / 0.25, in units of 1e-4

\* the score 1, as a count of 1/(21 * 2500)
ScoreOne == NumLandmarks * NormConst

\* Math.sqrt: the root of v, rounded down
RECURSIVE RootBetween(_, _, _)
RootBetween(v, lo, hi) ==
  IF hi - lo <= 1 THEN lo
  ELSE LET mid == (lo + hi) \div 2
       IN IF mid * mid <= v THEN RootBetween(v, mid, hi)
          ELSE RootBetween(v, lo, mid)

ISqrt(v) == RootBetween(v, 0, 32768)

\* Math.sqrt(dx * dx + dy * dy) of two points, in units of 1e-4
Distance(p, q) ==
  ISqrt(100 * ((p.x - q.x) * (p.x - q.x) + (p.y - q.y) * (p.y - q.y)))

RECURSIVE TotalDistance(_, _, _)
TotalDistance(a, b, i) ==
  IF i > NumLandmarks THEN 0
  ELSE Distance(a[i], b[i]) + TotalDistance(a, b, i + 1)

\* a value or the TypeError a property read of null/undefined throws
Returned(v) == [status |-> "ok", score |-> v, template |-> 0]
Thrown == [status |-> "TypeError", score |-> 0, template |-> 0]

NoHand == [present |-> FALSE, landmarks |-> <<>>]
Hand(lm) == [present |-> TRUE, landmarks |-> lm]

\* templates[k], undefined for an index outside the library
TemplateArg(k) ==
  IF k \in 1..Len(templates) THEN Hand(templates[k]) ELSE NoHand

GuardHandOnly(hand, template) == ~hand.present
GuardAbsent(hand, template) == ~hand.present \/ ~template.present

NoClamp(v) == v
ClampScore(v) == Max(0, v)

\* getClosestTemplate(hand, template); the score is a count of 1/ScoreOne:
\* max(0, 1 - (total / 21) / 0.25) = max(0, ScoreOne - total) / ScoreOne
GetClosestTemplate(hand, template) ==
  IF GuardAbsent(hand, template) THEN Returned(0)
  ELSE IF ~hand.present \/ ~template.present THEN Thrown
  ELSE Returned(ClampScore(
         ScoreOne - TotalDistance(hand.landmarks, template.landmarks, 1)))

BetterOrEqual(score, bestScore) == score >= bestScore
Better(score, bestScore) == score > bestScore

\* findBestMatch(hand): the scan over the library
RECURSIVE BestFrom(_, _, _)
BestFrom(hand, k, best) ==
  IF k > Len(templates) \/ best.status # "ok" THEN best
  ELSE LET r == GetClosestTemplate(hand, TemplateArg(k))
       IN IF r.status # "ok" THEN Thrown
          ELSE IF Better(r.score, best.score)
                 THEN BestFrom(hand, k + 1,
                        [status |-> "ok", score |-> r.score, template |-> k])
                 ELSE BestFrom(hand, k + 1, best)

FindBestMatch(hand) == BestFrom(hand, 1, Returned(0))

\* The hands the matcher is called with: every template moved by a
\* multiple of (0.03, 0.04), the landmark-wise middle of two templates,
\* all landmarks in one point, and no hand.
Shifted(lm, dx, dy) ==
  [i \in 1..Len(lm) |-> [x |-> lm[i].x + dx, y |-> lm[i].y + dy]]

Middle(a, b) ==
  [i \in 1..Len(a) |->
     [x |-> (a[i].x + b[i].x) \div 2, y |-> (a[i].y + b[i].y) \div 2]]

AllAt(px, py) == [i \in 1..NumLandmarks |-> [x |-> px, y |-> py]]

TemplateIndex == 1..Len(templates)

MatchHands ==
  { Hand(Shifted(templates[t], 30 * u, 40 * u)) :
      t \in TemplateIndex, u \in 0..MaxShift }
    \cup { Hand(Middle(templates[a], templates[b])) :
             a \in TemplateIndex, b \in TemplateIndex }
    \cup { Hand(AllAt(0, 0)), Hand(AllAt(500, 500)), Hand(AllAt(1000, 1000)) }
    \cup { NoHand }

InitMatch ==
  /\ mOp = "none"
  /\ mHand = NoHand
  /\ mTemplate = 0
  /\ mResult = Returned(0)

-----------------------------------------------------------------------------
(* main.js: the velocity of a hand against the previous frame of its side  *)

Sides == {"left", "right"}

OtherSide(side) == IF side = "left" THEN "right" ELSE "left"

Sensitivity == 100         \* totalDist / hand.landmarks.length * 100

\* the velocity 1, as a count of 1/(21 * 10000)
VelocityOne == NumLandmarks * 10000

\* Math.min(totalDist / hand.landmarks.length * 100, 1)
Velocity(curr, prev) ==
  Min(TotalDistance(curr, prev, 1) * Sensitivity, VelocityOne)

StoreFirstOnly(prev, side, lm) ==
  IF prev[side].present THEN prev ELSE [prev EXCEPT ![side] = Hand(lm)]
StoreLeft(prev, side, lm) == [prev EXCEPT !["left"] = Hand(lm)]
StoreBaseline(prev, side, lm) == [prev EXCEPT ![side] = Hand(lm)]

\* calculateHandVelocity(hand, side) of the single-tracker app:
\* [ret, prev] from the hand's landmarks and the prevLandmarks object
CalculateHandVelocity(lm, side, prev) ==
  IF ~prev[side].present
    THEN [ret |-> 0, prev |-> StoreBaseline(prev, side, lm)]
    ELSE [ret |-> Velocity(lm, prev[side].landmarks),
          prev |-> StoreBaseline(prev, side, lm)]

\* calculateHandVelocity(hand) of the two-tracker app, which keeps the
\* baseline in the hand record: [ret, hand]
CalculateRecordVelocity(hand) ==
  IF ~hand.prevLandmarks.present
    THEN [ret |-> 0,
          hand |-> [hand EXCEPT !.prevLandmarks = Hand(hand.landmarks)]]
    ELSE [ret |-> Velocity(hand.landmarks, hand.prevLandmarks.landmarks),
          hand |-> [hand EXCEPT !.prevLandmarks = Hand(hand.landmarks)]]

\* processResults builds a new record for every hand of every frame
FreshRecord(lm) == [landmarks |-> lm, prevLandmarks |-> NoHand]

VelocityHands ==
  { Shifted(templates[1], 3 * u, 4 * u) : u \in 0..(MaxShift \div 2) }
    \cup { templates[2] }

\* the streams of hands a velocity is computed for: the left and the right
\* hand of the single-tracker app, results[0] of the two-tracker app
Streams == Sides \cup {"record"}

NoCall ==
  [variant |-> "none", side |-> "left", landmarks |-> <<>>, first |-> FALSE,
   ret |-> 0, otherBefore |-> NoHand, before |-> NoHand]

InitVelocity ==
  /\ prevLandmarks = [s \in Sides |-> NoHand]
  /\ handRecord = FreshRecord(<<>>)
  /\ vCall = NoCall
  /\ lastFrame = [s \in Streams |-> NoHand]

-----------------------------------------------------------------------------
(* music.js: the SoundEngine.  A velocity, a spread and a coordinate are   *)
(* counted in thousandths, a filter cutoff in Hz, a reverb wet amount and  *)
(* a stem volume in units of 1e-4, a tempo in thousandths of a BPM and a   *)
(* drone volume in thousandths of a dB.                                    *)

PENTATONIC == <<"E3", "G3", "A3", "B3", "D4", "E4", "G4", "A4", "B4", "D5">>

\* what an array or an object yields for an index or a key it does not hold
Undefined == "undefined"

fingerNames == <<"thumb", "index", "middle", "ring", "pinky">>

\* the landmark index of each finger's tip, counted from 0 as in the source
tips == <<4, 8, 12, 16, 20>>

EngineVersions == {"stems", "player"}   \* music.js and its one-player version

VolumeOne == 10000         \* stem volume 1
NoteThreshold == 100       \* velocity > 0.1
ReverbCeiling == 8000      \* Math.min(baseReverb + spreadBoost, 0.8)
OpenFilter == 8000         \* this.effects.filter.frequency.rampTo(8000, 0.2)

\* an entry of the audio log: a ramp of a parameter or a note trigger
Ramp(param, target) ==
  [param |-> param, value |-> target, finger |-> "none", note |-> "none"]

TriggerAttackRelease(finger, note) ==
  [param |-> "note", value |-> 0, finger |-> finger, note |-> note]

\* the engine after its constructor and start(): reverb wet 0.4, filter 2000,
\* Tone.Transport.bpm = baseTempo
NewEngine(started, playing, players) ==
  [isStarted |-> started,
   isPlayingRecorded |-> playing,
   hasPlayers |-> players,
   lastNotes |-> [f \in 1..Len(fingerNames) |-> Undefined],
   filter |-> 2000,
   reverbValue |-> 4000,
   reverb |-> 4000,
   tempo |-> 100000,
   drone |-> -20000,
   delay |-> 2000,
   drumsVolume |-> VolumeOne,
   melodyVolume |-> VolumeOne]

\* Math.floor((1 - tip.y) * PENTATONIC.length)
NoteIndex(y) == ((1000 - y) * Len(PENTATONIC)) \div 1000

NoClampIndex(i) == i
\* Math.max(0, Math.min(noteIndex, PENTATONIC.length - 1))
ClampIndex(i) == Max(0, Min(i, Len(PENTATONIC) - 1))

\* arr[i] of the source, i counted from 0
ElementAt(arr, i) == IF i \in 0..(Len(arr) - 1) THEN arr[i + 1] ELSE Undefined

NoteFor(y) == ElementAt(PENTATONIC, ClampIndex(NoteIndex(y)))

TriggerOnChange(note, last, velocity) == note # last
\* note !== this.lastNotes[name] && velocity > 0.1
ShouldTrigger(note, last, velocity) == note # last /\ velocity > NoteThreshold

\* the loop over the five fingertips; st is [lastNotes, log]
RECURSIVE NoteLoop(_, _, _, _)
NoteLoop(k, landmarks, velocity, st) ==
  IF k > Len(tips) THEN st
  ELSE LET note == NoteFor(landmarks[tips[k] + 1].y)
       IN NoteLoop(k + 1, landmarks, velocity,
            IF ShouldTrigger(note, st.lastNotes[k], velocity)
              THEN [lastNotes |-> [st.lastNotes EXCEPT ![k] = note],
                    log |-> Append(st.log,
                                   TriggerAttackRelease(fingerNames[k], note))]
              ELSE st)

BoostBoth(balance, heightBoost) == heightBoost
\* balance < 0.5 ? heightBoost : 0
DrumsBoost(balance, heightBoost) == IF balance < 500 THEN heightBoost ELSE 0
\* balance >= 0.5 ? heightBoost : 0
MelodyBoost(balance, heightBoost) == IF balance >= 500 THEN heightBoost ELSE 0

\* updateStemMix(landmarks) with setDrumsVolume and setMelodyVolume:
\* [engine, log]
UpdateStemMix(s, landmarks) ==
  LET wrist == landmarks[1]
      balance == wrist.x
      drumsVol == VolumeOne - balance * 7
      melodyVol == 3000 + balance * 7
      heightBoost == (1000 - wrist.y) * 3
      d == Min(VolumeOne, drumsVol + DrumsBoost(balance, heightBoost))
      m == Min(VolumeOne, melodyVol + MelodyBoost(balance, heightBoost))
  IN [engine |-> [s EXCEPT !.drumsVolume = d, !.melodyVolume = m],
      log |-> <<Ramp("drums", d), Ramp("melody", m)>>]

FirstTempoLast(targetTempo, combinedTempo) == <<Ramp("tempo", targetTempo)>>
\* the tempo ramps of music.js: towards the velocity estimate, then towards
\* the mean of the two estimates
TempoRamps(targetTempo, combinedTempo) ==
  <<Ramp("tempo", targetTempo), Ramp("tempo", combinedTempo)>>

\* how far a ramp has come when the next call reads or replaces it:
\* not begun, halfway, arrived
Progress == 0..2

\* this.effects.reverb.wet.value while the last ramp is at progress g
WetValue(s, g) == s.reverbValue + ((s.reverb - s.reverbValue) * g) \div 2

\* this.effects.reverb.wet.rampTo(target, ...) issued at progress g
RampReverb(s, target, g) ==
  [s EXCEPT !.reverbValue = WetValue(s, g), !.reverb = target]

\* updateFromHand(velocity, spread, landmarks) of the version v: [engine, log]
UpdateFromHand(v, s, velocity, spread, landmarks, g) ==
  IF ~s.isStarted THEN [engine |-> s, log |-> <<>>]
  ELSE
    LET filterFreq == 200 + velocity * 4
        notes == NoteLoop(1, landmarks, velocity,
                          [lastNotes |-> s.lastNotes, log |-> <<>>])
        wristY == landmarks[1].y
        droneVol == -30000 + (1000 - wristY) * 15
        targetTempo == 80000 + velocity * 100
        heightTempo == 80000 + (1000 - wristY) * 80
        combinedTempo == (targetTempo + heightTempo) \div 2
        tempoLog == IF v = "stems" THEN TempoRamps(targetTempo, combinedTempo)
                    ELSE IF ~s.isPlayingRecorded
                           THEN <<Ramp("tempo", combinedTempo)>>
                           ELSE <<>>
        s1 == [RampReverb(s, spread * 6, g) EXCEPT
                        !.filter = filterFreq,
                        !.lastNotes = notes.lastNotes,
                        !.drone = droneVol,
                        !.tempo = IF tempoLog = <<>> THEN s.tempo
                                  ELSE tempoLog[Len(tempoLog)].value]
        mix == IF v = "stems" /\ s.isPlayingRecorded
                 THEN UpdateStemMix(s1, landmarks)
                 ELSE [engine |-> s1, log |-> <<>>]
    IN [engine |-> mix.engine,
        log |-> <<Ramp("filter", filterFreq), Ramp("reverb", spread * 6)>>
                  \o notes.log \o <<Ramp("drone", droneVol)>>
                  \o tempoLog \o mix.log]

\* processPose / PoseTracker.processResults: the record made of the two
\* wrists (pose landmarks 15 and 16); `up` is the height both arms must pass
NoPose ==
  [present |-> FALSE, bothArmsUp |-> FALSE, armsSpread |-> 0,
   leftHeight |-> 0, rightHeight |-> 0]

ProcessPose(leftWrist, rightWrist, up) ==
  [present |-> TRUE,
   bothArmsUp |-> (1000 - leftWrist.y) > up /\ (1000 - rightWrist.y) > up,
   armsSpread |-> Max(leftWrist.x - rightWrist.x, rightWrist.x - leftWrist.x),
   leftHeight |-> 1000 - leftWrist.y,
   rightHeight |-> 1000 - rightWrist.y]

HolisticUp == 500          \* (1 - landmarks[15].y) > 0.5
PoseUp == 600              \* (1 - landmarks[15].y) > 0.6

\* if (arms.bothArmsUp && this.effects.filter)
OpensFilter(arms) == arms.bothArmsUp

\* updateFromArms(arms) of music.js: [engine, log]
UpdateFromArms(s, arms, g) ==
  IF ~s.isStarted \/ ~arms.present THEN [engine |-> s, log |-> <<>>]
  ELSE
    LET reverbWet == arms.armsSpread * 8
        s1 == RampReverb(s, reverbWet, g)
    IN [engine |-> IF OpensFilter(arms)
                     THEN [s1 EXCEPT !.filter = OpenFilter] ELSE s1,
        log |-> (IF s.hasPlayers
                   THEN <<Ramp("drumsDb", -20000 + arms.rightHeight * 20),
                          Ramp("melodyDb", -20000 + arms.leftHeight * 20)>>
                   ELSE <<>>)
                \o <<Ramp("reverb", reverbWet)>>
                \o (IF OpensFilter(arms)
                      THEN <<Ramp("filter", OpenFilter)>> ELSE <<>>)]

NoCeiling(wet) == wet
\* Math.min(baseReverb + spreadBoost, 0.8)
Ceiling(wet) == Min(wet, ReverbCeiling)

\* updateFromPose(pose) of the one-player version: [engine, log]
UpdateFromPose(s, pose, g) ==
  IF ~s.isStarted \/ ~pose.present THEN [engine |-> s, log |-> <<>>]
  ELSE
    LET baseReverb == WetValue(s, g)
        spreadBoost == pose.armsSpread * 3
        wet == Ceiling(baseReverb + spreadBoost)
        s1 == RampReverb(s, wet, g)
    IN [engine |-> IF OpensFilter(pose)
                     THEN [s1 EXCEPT !.filter = OpenFilter] ELSE s1,
        log |-> <<Ramp("reverb", wet)>>
                \o (IF OpensFilter(pose)
                      THEN <<Ramp("filter", OpenFilter)>> ELSE <<>>)]

\* calculatePalmCenter(landmarks).y: the mean of landmarks 0, 5, 9, 13, 17
\* (rounded down to a thousandth)
PalmCenterY(landmarks) ==
  (landmarks[1].y + landmarks[6].y + landmarks[10].y + landmarks[14].y
     + landmarks[18].y) \div 5

\* calculateFingerSpread(landmarks) of the HolisticTracker: the distance
\* between the index tip and the pinky tip, in 1e-4
FingerSpread(landmarks) == Distance(landmarks[9], landmarks[21])

\* updateLeftHand(hand, velocity): [engine, log]
UpdateLeftHand(s, landmarks, velocity) ==
  IF ~s.isStarted THEN [engine |-> s, log |-> <<>>]
  ELSE
    LET height == 1000 - PalmCenterY(landmarks)
        filterFreq == 200 + height * 4
        delayWet == (FingerSpread(landmarks) * 4) \div 10
    IN [engine |-> [s EXCEPT !.filter = filterFreq, !.delay = delayWet],
        log |-> <<Ramp("filter", filterFreq), Ramp("delay", delayWet)>>]

UnguardedRightHand(s, landmarks, velocity, g) ==
  [engine |-> RampReverb(s, (1000 - PalmCenterY(landmarks)) * 6, g),
   log |-> <<Ramp("reverb", (1000 - PalmCenterY(landmarks)) * 6)>>]
\* updateRightHand(hand, velocity): [engine, log]
UpdateRightHand(s, landmarks, velocity, g) ==
  IF ~s.isStarted THEN [engine |-> s, log |-> <<>>]
  ELSE
    LET height == 1000 - PalmCenterY(landmarks)
    IN [engine |-> RampReverb(s, height * 6, g),
        log |-> <<Ramp("reverb", height * 6)>>]

\* playReward(): a chord on a synth of its own
PlayReward(s) ==
  IF ~s.isStarted THEN [engine |-> s, log |-> <<>>]
  ELSE [engine |-> s,
        log |-> <<[param |-> "chord", value |-> 0, finger |-> "none",
                   note |-> "E4 G#4 B4"]>>]

NoSoundCall ==
  [op |-> "none", velocity |-> 0, spread |-> 0, landmarks |-> <<>>,
   pose |-> NoPose, lastBefore |-> [f \in 1..Len(fingerNames) |-> Undefined],
   wetBefore |-> 0]

\* the engine an application constructs, before its start()
InitSound ==
  /\ engine = "stems"
  /\ soundEngine = NewEngine(FALSE, FALSE, FALSE)
  /\ sLog = <<>>
  /\ sCall = NoSoundCall
  /\ sCalls = 0

-----------------------------------------------------------------------------
(* main.js: the applications.  "twoTracker" is the application with a      *)
(* HandTracker and a PoseTracker (handleHandResults, handleArmResults),    *)
(* "holistic" the one with a HolisticTracker (handleTrackingResults).      *)

Apps == {"twoTracker", "holistic"}

\* the methods the Visualizer class defines; a call of any other method on
\* the visualizer throws a TypeError
VisualizerMethods ==
  {"setSoundEngine", "updateHands", "pickUniqueColors", "spawnMedallion",
   "updateMedallions", "drawMedallions", "drawIkatMedallion",
   "drawWobblyDiamond", "drawBlurredWobblyMedallion", "drawWobblyMedallion",
   "drawHands", "drawConnections", "drawTemplate", "drawMatchIndicator",
   "setMode", "setMatchScore", "setTemplate", "drawEqualizer"}

\* what a send of a frame to the landmark source can come to
SendOutcomes == {"notReady", "failed", "ok"}

\* a call that changes nothing in the engine
Silent(s) == [engine |-> s, log |-> <<>>, threw |-> FALSE]

\* calculateFingerSpread(hand) of the two-tracker application: three times
\* the mean distance of the five tips from the wrist, at most 1
CalculateFingerSpread(landmarks) ==
  Min((3 * (Distance(landmarks[5], landmarks[1])
            + Distance(landmarks[9], landmarks[1])
            + Distance(landmarks[13], landmarks[1])
            + Distance(landmarks[17], landmarks[1])
            + Distance(landmarks[21], landmarks[1]))) \div 50, 1000)

Has(hs, label) == \E i \in 1..Len(hs) : hs[i] = label

\* the SoundEngine calls a handler makes for the hands of a result:
\* [engine, log]
HandSound(a, st, s, hs, landmarks, g) ==
  IF hs = <<>> THEN Silent(s)
  ELSE IF a = "twoTracker" THEN
    LET mix == IF st.soundEnabled THEN UpdateStemMix(s, landmarks)
               ELSE Silent(s)
        velocity == CalculateRecordVelocity(FreshRecord(landmarks)).ret
        hand == IF st.musicPlaying
                  THEN UpdateFromHand("stems", mix.engine, velocity,
                                      CalculateFingerSpread(landmarks),
                                      landmarks, g)
                  ELSE Silent(mix.engine)
    IN [engine |-> hand.engine, log |-> mix.log \o hand.log]
  ELSE
    LET left == IF st.soundEnabled /\ Has(hs, "Left")
                  THEN UpdateLeftHand(s, landmarks,
                         CalculateHandVelocity(landmarks, "left",
                                               prevLandmarks).ret)
                  ELSE Silent(s)
        right == IF st.soundEnabled /\ Has(hs, "Right")
                   THEN UpdateRightHand(left.engine, landmarks,
                          CalculateHandVelocity(landmarks, "right",
                                                prevLandmarks).ret, g)
                   ELSE Silent(left.engine)
    IN [engine |-> right.engine, log |-> left.log \o right.log]

\* what a handler does with the pose of a result: [engine, log, threw]
PoseSound(a, st, s, pose, g) ==
  IF ~pose.present THEN Silent(s)
  ELSE IF a = "twoTracker" THEN
    LET arms == IF st.soundEnabled THEN UpdateFromArms(s, pose, g)
                ELSE Silent(s)
    IN [engine |-> arms.engine, log |-> arms.log,
        threw |-> "updateArms" \notin VisualizerMethods]
  ELSE IF "updatePose" \notin VisualizerMethods
    THEN [engine |-> s, log |-> <<>>, threw |-> TRUE]
  ELSE LET r == IF st.soundEnabled THEN UpdateFromPose(s, pose, g)
                ELSE Silent(s)
       IN [engine |-> r.engine, log |-> r.log, threw |-> FALSE]

\* state.matchScore after a result with the hands hs was handled
MatchScoreAfter(st, hs, landmarks) ==
  IF hs # <<>> /\ st.mode = "learn"
    THEN GetClosestTemplate(Hand(landmarks),
                            TemplateArg(st.currentTemplate + 1)).score
    ELSE st.matchScore

NoResult ==
  [op |-> "none", outcome |-> "none", hands |-> <<>>, landmarks |-> <<>>,
   pose |-> NoPose, delivered |-> <<>>, threw |-> FALSE, nextIdBefore |-> 0]

\* the application's state object, its components and its tracker in
\* session a: the mode m, the sound and the synth button on or off, the
\* tracker started or not
InitApp(a, m, sound, synth, run) ==
  /\ app = a
  /\ state = [mode |-> m, soundEnabled |-> sound, musicPlaying |-> synth,
              currentHands |-> <<>>, currentPose |-> NoPose,
              matchScore |-> 0, currentTemplate |-> 0]
  /\ matchScore = 0
  /\ tracker = [running |-> run, scheduled |-> run, poseLoop |-> run]
  /\ aCall = NoResult
  /\ events = 0

-----------------------------------------------------------------------------
(* The SoundEngine's lifecycle: start, stop and the recorded music *)

\* the players of the recorded music: two stems, or one player
Players(v) == IF v = "stems" THEN <<"drums", "melody">> ELSE <<"music">>

\* player.start() or player.stop() on each of them
PlayerEvents(v, what) ==
  [i \in 1..Len(Players(v)) |->
     [param |-> "player", value |-> 0, finger |-> Players(v)[i],
      note |-> what]]

\* stopRecordedMusic()
StopRecordedMusic(v, s) ==
  IF s.isPlayingRecorded
    THEN [engine |-> [s EXCEPT !.isPlayingRecorded = FALSE],
          log |-> IF s.hasPlayers THEN PlayerEvents(v, "stop") ELSE <<>>,
          done |-> TRUE]
    ELSE [engine |-> s, log |-> <<>>, done |-> TRUE]

\* playRecordedMusic() between its await of Tone.start() and its await of
\* Tone.loaded(): music that already plays is stopped by the stems version
\* and left to play by the one-player version; otherwise the players are
\* created
PlayRecordedCheck(v, s) ==
  IF s.isPlayingRecorded
    THEN IF v = "stems" THEN StopRecordedMusic(v, s)
         ELSE [engine |-> s, log |-> <<>>, done |-> TRUE]
    ELSE [engine |-> [s EXCEPT !.hasPlayers = TRUE], log |-> <<>>,
          done |-> FALSE]

\* playRecordedMusic() after Tone.loaded(): the players start
PlayRecordedStart(v, s) ==
  [engine |-> [s EXCEPT !.isPlayingRecorded = TRUE],
   log |-> PlayerEvents(v, "start"), done |-> TRUE]

\* playRecordedMusic() with nothing else running between its awaits
PlayRecordedMusic(v, s) ==
  LET c == PlayRecordedCheck(v, s)
      t == PlayRecordedStart(v, c.engine)
  IN IF c.done THEN c
     ELSE [engine |-> t.engine, log |-> c.log \o t.log, done |-> TRUE]

\* what start() has built and what sounds: audio graphs built, drones
\* attacked and not released, the Doira part and the transport running
NoAudio == [built |-> 0, drones |-> 0, rhythm |-> FALSE, transport |-> FALSE]

\* start() after its await of Tone.start(): synths, effects, the drone
\* attacked, the rhythm set up and stopped, isStarted = true
StartGraph(s, a) ==
  [engine |-> [s EXCEPT !.isStarted = TRUE],
   audio |-> [built |-> a.built + 1, drones |-> a.drones + 1,
              rhythm |-> FALSE, transport |-> FALSE]]

\* startRhythm() and stopRhythm(): nothing without a rhythmPart
SetRhythm(a, on) ==
  IF a.built > 0 THEN [a EXCEPT !.rhythm = on, !.transport = on] ELSE a

\* stop(): the rhythm stopped, this.drone released, isStarted = false
StopEngine(s, a) ==
  IF ~s.isStarted THEN [engine |-> s, audio |-> a]
  ELSE [engine |-> [s EXCEPT !.isStarted = FALSE],
        audio |-> [SetRhythm(a, FALSE) EXCEPT
                     !.drones = IF a.drones > 0 THEN @ - 1 ELSE @]]

\* no click handler in flight
NoHandlers ==
  [n |-> 0, pending |-> <<>>, last |-> "none", overlapped |-> FALSE]

-----------------------------------------------------------------------------
(* A medallion in detail: its layers and colors, its seed, its drift.      *)
(* Random draws are in thousandths; positions and velocities in            *)
(* thousandths of a pixel.                                                 *)

IKAT_COLORS ==
  << "turquoise", "crimson", "gold", "purple", "indigo", "magenta", "green",
     "dark green", "teal green", "blue", "dark blue", "light blue", "black",
     "white" >>

\* Math.floor(this.p.random(2, 6))
NumLayers(r) == r \div 1000

NoSplice(available, idx) == available
\* available.splice(idx, 1)
Remaining(available, idx) == Splice(available, idx)

\* pickUniqueColors(count): idx = Math.floor(this.p.random(available.length))
RECURSIVE PickLoop(_, _, _, _)
PickLoop(i, count, available, draws) ==
  IF i > count \/ available = <<>> THEN <<>>
  ELSE LET idx == (draws[i] * Len(available)) \div 1000 + 1
       IN <<available[idx]>>
            \o PickLoop(i + 1, count, Remaining(available, idx), draws)

PickUniqueColors(count, draws) == PickLoop(1, count, IKAT_COLORS, draws)

\* spawnMedallion(x, y): one layer per color
Layered(r, draws, seed, decay, vy) ==
  [x |-> 0, y |-> 0, vx |-> 500, vy |-> vy,
   layers |-> PickUniqueColors(NumLayers(r), draws),
   wobbleSeed |-> seed, life |-> LifeOne, decay |-> decay]

\* updateMedallions, one medallion: m.x += m.vx; m.y += m.vy; m.vy += 0.02;
\* m.life -= m.decay
Drift(m) == [Age(m) EXCEPT !.x = @ + m.vx, !.y = @ + m.vy, !.vy = @ + 20]

NoPiece == [present |-> FALSE, m |-> <<>>, spawned |-> <<>>, ticks |-> 0]

-----------------------------------------------------------------------------
(* The bend angle of a finger and the angle of an arm.  Coordinates are in *)
(* thousandths, magnitudes in units of 1e-4, their products in 1e-8,       *)
(* angles in thousandths of a radian.                                      *)

Epsilon == 10000           \* mag1 * mag2 + 0.0001, in units of 1e-8

NaN == [nan |-> TRUE, value |-> 0]
Number(v) == [nan |-> FALSE, value |-> v]

\* Math.sqrt(v.x * v.x + v.y * v.y)
Magnitude(v) == ISqrt(100 * (v.x * v.x + v.y * v.y))

NoEpsilon(mag1, mag2) == mag1 * mag2
\* mag1 * mag2 + 0.0001
Denominator(mag1, mag2) == mag1 * mag2 + Epsilon

\* Math.acos(dot / den): NaN for 0/0 and for a quotient outside [-1, 1],
\* otherwise sqrt(1 - x) * (1.5707288 - 0.2121144 x + 0.0742610 x^2
\* - 0.0187293 x^3) for x = |dot / den|, mirrored at pi/2 for a negative dot
Acos(dot, den) ==
  LET a == Max(dot, 0 - dot)
  IN IF den = 0 \/ a > den THEN NaN
     ELSE LET x == Min((a * 100) \div Max(den \div 10, 1), 1000)
              t1 == ((0 - 18729) * x) \div 1000 + 74261
              t2 == (t1 * x) \div 1000 - 212114
              poly == (t2 * x) \div 1000 + 1570729
              acute == (ISqrt((1000 - x) * 1000) * poly) \div 1000000
          IN Number(IF dot >= 0 THEN acute ELSE 3142 - acute)

\* Math.acos(dot / (mag1 * mag2 + 0.0001)) of two vectors
AngleBetween(v1, v2) ==
  Acos(100 * (v1.x * v2.x + v1.y * v2.y),
       Denominator(Magnitude(v1), Magnitude(v2)))

Minus(p, q) == [x |-> p.x - q.x, y |-> p.y - q.y]

\* calculateFingerAngles, one finger: the angle between MCP-PIP and PIP-TIP
CalculateFingerAngle(mcp, pip, tip) ==
  AngleBetween(Minus(pip, mcp), Minus(tip, pip))

\* calculateArmAngle(shoulder, elbow, wrist)
CalculateArmAngle(shoulder, elbow, wrist) ==
  AngleBetween(Minus(shoulder, elbow), Minus(wrist, elbow))

NoAngle ==
  [op |-> "none", a |-> [x |-> 0, y |-> 0], b |-> [x |-> 0, y |-> 0],
   c |-> [x |-> 0, y |-> 0], ret |-> Number(0)]

-----------------------------------------------------------------------------
(* main.js setupControls: the keyboard and the buttons *)

\* JavaScript's a % n: the remainder has the sign of the dividend
Rem(a, n) == IF a >= 0 THEN a % n ELSE 0 - ((0 - a) % n)

\* (state.currentTemplate + 1) % templates.length
StepRight(c) == Rem(c + 1, Len(templates))

NoWrapLeft(c) == Rem(c - 1, Len(templates))
\* (state.currentTemplate - 1 + templates.length) % templates.length
StepLeft(c) == Rem(c - 1 + Len(templates), Len(templates))

Keys == {"1", "2", "ArrowRight", "ArrowLeft"}

NoKey ==
  [key |-> "none", n |-> 0, modeBefore |-> "learn", before |-> 0,
   prevKey |-> "none", beforePrev |-> 0]

\* the passes of a tracker's ingestion loop and its camera, as constructed:
\* start() calls awaiting the camera, requestAnimationFrame callbacks
\* queued, sends in flight, streams whose tracks are live
NoLoop ==
  [starting |-> 0, queued |-> 0, sending |-> 0, liveStreams |-> 0,
   srcLive |-> FALSE, last |-> "none", calls |-> 0, sentAfterStop |-> FALSE]

\* the controls as set up: no template handed to the visualizer yet
InitCtl ==
  /\ vTemplate = NoHand
  /\ kCall = NoKey
  /\ loop = NoLoop
  /\ gCall = NoAngle
  /\ audio = NoAudio
  /\ handlers = NoHandlers
  /\ piece = NoPiece

\* everything outside the Visualizer, the matcher and the velocity cache,
\* as constructed
InitRest ==
  InitSound /\ InitApp("twoTracker", "learn", FALSE, FALSE, FALSE) /\ InitCtl

-----------------------------------------------------------------------------
(* Free runs of the Visualizer *)

\* the Visualizer with `pool` in its pool and nothing observed yet
InitVisualizer(pool, m, ph) ==
  /\ medallions = pool
  /\ mode = m
  /\ hands = <<>>
  /\ nextId = Len(pool) + 1
  /\ ticks = 0
  /\ frames = 0
  /\ switches = 0
  /\ phase = ph
  /\ decayRule = "any"
  /\ lastOp = "init"
  /\ sizeBefore = Len(pool)
  /\ evictions = <<>>
  /\ expired = {}
  /\ drawn = <<>>
  /\ awaiting = FALSE
  /\ switchMark = 0
  /\ afterSwitch = FALSE

Init ==
  /\ \E pool \in { p \in SessionPools : LivePool(p) }, m \in Modes :
       InitVisualizer(pool, m, "free")
  /\ InitMatch
  /\ InitVelocity
  /\ InitRest

\* updateHands(hs) with the callback's random draws
DoUpdateHands(hs, coins, rule) ==
  LET r == UpdateHandsResult(hs, coins, rule)
  IN /\ hands' = hs
     /\ medallions' = r.pool
     /\ nextId' = r.nextId
     /\ evictions' = r.evictions
     /\ frames' = frames + 1
     /\ lastOp' = "updateHands"
     /\ sizeBefore' = Len(medallions)
     /\ expired' = {}
     /\ UNCHANGED <<mode, ticks, switches, drawn, awaiting, switchMark,
                    afterSwitch>>

\* p.draw: updateMedallions, then drawMedallions
DoDraw ==
  /\ medallions' = UpdateMedallions(medallions)
  /\ drawn' = medallions'
  /\ expired' = Ids(medallions) \ Ids(medallions')
  /\ ticks' = ticks + 1
  /\ lastOp' = "draw"
  /\ sizeBefore' = Len(medallions)
  /\ afterSwitch' = awaiting
  /\ awaiting' = FALSE
  /\ evictions' = <<>>
  /\ UNCHANGED <<mode, hands, nextId, frames, switches, switchMark>>

\* setMode(m)
DoSetMode(m) ==
  /\ mode' = m
  /\ medallions' = ClearedPool(medallions)
  /\ switches' = switches + 1
  /\ lastOp' = "setMode"
  /\ sizeBefore' = Len(medallions)
  /\ awaiting' = TRUE
  /\ switchMark' = nextId
  /\ evictions' = <<>>
  /\ expired' = {}
  /\ UNCHANGED <<hands, nextId, ticks, frames, drawn, afterSwitch>>

UpdateHands ==
  /\ phase = "free"
  /\ frames < MaxFrames
  /\ \E hs \in HandLists, coins \in CoinStreams :
       DoUpdateHands(hs, coins, "mixed")
  /\ UNCHANGED <<phase, decayRule, matchVars, velVars, restVars>>

Draw ==
  /\ phase = "free"
  /\ ticks < MaxTicks
  /\ DoDraw
  /\ UNCHANGED <<phase, decayRule, matchVars, velVars, restVars>>

SetMode ==
  /\ phase = "free"
  /\ switches < MaxSwitches
  /\ \E m \in Modes : DoSetMode(m)
  /\ UNCHANGED <<phase, decayRule, matchVars, velVars, restVars>>

Next == UpdateHands \/ Draw \/ SetMode

Spec == Init /\ [][Next]_vars

-----------------------------------------------------------------------------
(* The saturation scenario: perform mode, two tracked hands, every spawn   *)
(* draw below the spawn chance, one render tick per processed frame.  The  *)
(* run's random stream fixes the rule its decays follow.                   *)

InitPerform ==
  /\ InitVisualizer(<<>>, "learn", "setup")
  /\ InitMatch
  /\ InitVelocity
  /\ InitRest

PerformStart ==
  /\ phase = "setup"
  /\ DoSetMode("perform")
  /\ phase' = "hands"
  /\ decayRule' \in DecayRules
  /\ UNCHANGED <<matchVars, velVars, restVars>>

PerformHands ==
  /\ phase = "hands"
  /\ frames < ScenarioFrames
  /\ DoUpdateHands(<<"Left", "Right">>, AlwaysHit, decayRule)
  /\ phase' = "draw"
  /\ UNCHANGED <<decayRule, matchVars, velVars, restVars>>

PerformTick ==
  /\ phase = "draw"
  /\ DoDraw
  /\ phase' = "hands"
  /\ UNCHANGED <<decayRule, matchVars, velVars, restVars>>

NextPerform == PerformStart \/ PerformHands \/ PerformTick

SpecPerform == InitPerform /\ [][NextPerform]_vars

-----------------------------------------------------------------------------
(* Calls of the template matcher *)

\* The arguments are drawn at the start; a call applies the function.
InitMatchCall ==
  /\ InitVisualizer(<<>>, "learn", "free")
  /\ mOp = "none"
  /\ mHand \in MatchHands
  /\ mTemplate \in 0..Len(templates)
  /\ mResult = Returned(0)
  /\ InitVelocity
  /\ InitRest

CallGetClosestTemplate ==
  /\ mOp = "none"
  /\ mOp' = "getClosestTemplate"
  /\ mResult' = GetClosestTemplate(mHand, TemplateArg(mTemplate))
  /\ UNCHANGED <<visVars, velVars, mHand, mTemplate, restVars>>

CallFindBestMatch ==
  /\ mOp = "none"
  /\ mOp' = "findBestMatch"
  /\ mResult' = FindBestMatch(mHand)
  /\ UNCHANGED <<visVars, velVars, mHand, mTemplate, restVars>>

InitConstructed ==
  /\ InitVisualizer(<<>>, "learn", "free")
  /\ InitMatch
  /\ InitVelocity
  /\ InitRest

NextMatch == CallGetClosestTemplate \/ CallFindBestMatch

SpecMatch == InitMatchCall /\ [][NextMatch]_vars

-----------------------------------------------------------------------------
(* Calls of the velocity computation *)

SideVelocity ==
  /\ \E lm \in VelocityHands, side \in Sides :
       LET r == CalculateHandVelocity(lm, side, prevLandmarks)
       IN /\ prevLandmarks' = r.prev
          /\ vCall' = [variant |-> "side", side |-> side, landmarks |-> lm,
                       first |-> ~prevLandmarks[side].present, ret |-> r.ret,
                       otherBefore |-> prevLandmarks[OtherSide(side)],
                       before |-> lastFrame[side]]
          /\ lastFrame' = [lastFrame EXCEPT ![side] = Hand(lm)]
  /\ UNCHANGED <<visVars, matchVars, handRecord, restVars>>

RecordVelocity ==
  /\ \E lm \in VelocityHands :
       LET r == CalculateRecordVelocity(FreshRecord(lm))
       IN /\ handRecord' = r.hand
          /\ vCall' = [variant |-> "record", side |-> "left", landmarks |-> lm,
                       first |-> ~FreshRecord(lm).prevLandmarks.present,
                       ret |-> r.ret, otherBefore |-> NoHand,
                       before |-> lastFrame["record"]]
          /\ lastFrame' = [lastFrame EXCEPT !["record"] = Hand(lm)]
  /\ UNCHANGED <<visVars, matchVars, prevLandmarks, restVars>>

NextVelocity == SideVelocity \/ RecordVelocity

SpecVelocity == InitConstructed /\ [][NextVelocity]_vars

-----------------------------------------------------------------------------
(* Calls of the SoundEngine *)

Velocities == {0, NoteThreshold, NoteThreshold + 1, 1000}

Spreads == {0, 1000}

\* a hand with its wrist at `wrist` and every joint of finger k at height ys[k]
TipsAt(wrist, ys) ==
  [i \in 1..NumLandmarks |->
     IF i = 1 THEN wrist
     ELSE [x |-> wrist.x, y |-> ys[((i - 2) \div 4) + 1]]]

\* fingertips on the top and the bottom edge of the frame, next to them and
\* outside the frame, and two library poses that map to different notes;
\* wrists left of, right of and on the middle of the frame
SoundHands ==
  { TipsAt([x |-> 0, y |-> 0], <<0, 1000, -200, 1500, 450>>),
    TipsAt([x |-> 1000, y |-> 0], <<999, 1, 100, 900, 1001>>),
    templates[1],
    Shifted(templates[1], -100, 200) }

\* the records made of a left wrist and a right wrist: both high, one
\* between the two thresholds, both low; apart, close and at the same place
Poses(up) ==
  { ProcessPose(l, r, up) :
      l \in { [x |-> 0, y |-> 200], [x |-> 250, y |-> 450],
              [x |-> 500, y |-> 900] },
      r \in { [x |-> 1000, y |-> 200], [x |-> 500, y |-> 350],
              [x |-> 500, y |-> 900] } }
    \cup { NoPose }

\* an engine in mid-session: started or not, the recorded stems created and
\* playing or not
InitSoundCall ==
  /\ InitVisualizer(<<>>, "learn", "free")
  /\ InitMatch
  /\ InitVelocity
  /\ engine \in EngineVersions
  /\ \E started \in BOOLEAN, playing \in BOOLEAN, players \in BOOLEAN :
       /\ playing => players
       /\ soundEngine = NewEngine(started, playing, players)
  /\ sLog = <<>>
  /\ sCall = NoSoundCall
  /\ sCalls = 0
  /\ InitApp("twoTracker", "learn", FALSE, FALSE, FALSE)
  /\ InitCtl

Called(op, velocity, spread, landmarks, pose, g) ==
  [op |-> op, velocity |-> velocity, spread |-> spread,
   landmarks |-> landmarks, pose |-> pose,
   lastBefore |-> soundEngine.lastNotes, wetBefore |-> WetValue(soundEngine, g)]

Apply(r, call) ==
  /\ sCalls < MaxCalls
  /\ soundEngine' = r.engine
  /\ sLog' = r.log
  /\ sCall' = call
  /\ sCalls' = sCalls + 1
  /\ UNCHANGED <<engine, visVars, matchVars, velVars, appVars, ctlVars>>

HandUpdate ==
  /\ engine \in EngineVersions
  /\ \E velocity \in Velocities, spread \in Spreads, lm \in SoundHands,
        g \in Progress :
       Apply(UpdateFromHand(engine, soundEngine, velocity, spread, lm, g),
             Called("updateFromHand", velocity, spread, lm, NoPose, g))

StemMix ==
  /\ engine = "stems"
  /\ \E lm \in SoundHands :
       Apply(UpdateStemMix(soundEngine, lm),
             Called("updateStemMix", 0, 0, lm, NoPose, 0))

ArmsUpdate ==
  /\ engine = "stems"
  /\ \E arms \in Poses(PoseUp), g \in Progress :
       Apply(UpdateFromArms(soundEngine, arms, g),
             Called("updateFromArms", 0, 0, <<>>, arms, g))

PoseUpdate ==
  /\ engine = "player"
  /\ \E pose \in Poses(HolisticUp), g \in Progress :
       Apply(UpdateFromPose(soundEngine, pose, g),
             Called("updateFromPose", 0, 0, <<>>, pose, g))

LeftHandUpdate ==
  /\ engine = "player"
  /\ \E lm \in SoundHands, velocity \in {0, 1000} :
       Apply(UpdateLeftHand(soundEngine, lm, velocity),
             Called("updateLeftHand", velocity, 0, lm, NoPose, 0))

RightHandUpdate ==
  /\ engine = "player"
  /\ \E lm \in SoundHands, velocity \in {0, 1000}, g \in Progress :
       Apply(UpdateRightHand(soundEngine, lm, velocity, g),
             Called("updateRightHand", velocity, 0, lm, NoPose, g))

RewardPlay ==
  /\ engine \in EngineVersions
  /\ Apply(PlayReward(soundEngine),
           Called("playReward", 0, 0, <<>>, NoPose, 0))

RecordedPlay ==
  /\ engine \in EngineVersions
  /\ Apply(PlayRecordedMusic(engine, soundEngine),
           Called("playRecordedMusic", 0, 0, <<>>, NoPose, 0))

NextSound ==
  \/ RecordedPlay
  \/ RewardPlay
  \/ HandUpdate
  \/ StemMix
  \/ ArmsUpdate
  \/ PoseUpdate
  \/ LeftHandUpdate
  \/ RightHandUpdate

SpecSound == InitSoundCall /\ [][NextSound]_vars

-----------------------------------------------------------------------------
(* Sessions of the applications: frames of the trackers' loops *)

AppHands == { templates[1], templates[2] }

\* no pose, both wrists high and apart, both wrists low and together
AppPoses(up) ==
  { NoPose,
    ProcessPose([x |-> 0, y |-> 200], [x |-> 1000, y |-> 200], up),
    ProcessPose([x |-> 500, y |-> 900], [x |-> 500, y |-> 900], up) }

\* the stream of spawn draws of a session: the first tip of a frame spawns
AppCoins == { [j \in 1..MaxTips |-> IF j = 1 THEN 5 ELSE 50] }

\* a session in progress: the application, its mode, and the buttons the
\* user pressed (the holistic application has the sound button only)
InitSession ==
  /\ InitMatch
  /\ InitVelocity
  /\ \E a \in Apps, m \in Modes, sound \in BOOLEAN, synth \in BOOLEAN :
       /\ a = "holistic" => ~synth
       /\ InitVisualizer(<<>>, m, "free")
       /\ InitApp(a, m, sound, synth, TRUE)
       /\ engine = IF a = "twoTracker" THEN "stems" ELSE "player"
       /\ soundEngine = NewEngine(sound \/ synth, sound, sound)
  /\ sLog = <<>>
  /\ sCall = NoSoundCall
  /\ sCalls = 0
  /\ InitCtl

\* what one pass of a loop leaves behind for the claims
Result(op, outcome, hs, landmarks, pose, delivered, threw) ==
  [op |-> op, outcome |-> outcome, hands |-> hs, landmarks |-> landmarks,
   pose |-> pose, delivered |-> delivered, threw |-> threw,
   nextIdBefore |-> nextId]

\* a pass that delivered nothing
Idle(op, outcome) ==
  /\ aCall' = Result(op, outcome, <<>>, <<>>, NoPose, <<>>, FALSE)
  /\ UNCHANGED <<visVars, matchVars, velVars, sndVars, app, state, matchScore,
                 ctlVars>>

\* HandTracker.processFrame: send, processResults, handleHandResults
HandFrame ==
  /\ app = "twoTracker"
  /\ tracker.scheduled
  /\ events < MaxEvents
  /\ events' = events + 1
  /\ \E outcome \in SendOutcomes :
       /\ tracker' = [tracker EXCEPT
                        !.scheduled = tracker.running /\ outcome # "failed"]
       /\ IF ~tracker.running THEN Idle("processFrame", "stopped")
          ELSE IF outcome # "ok" THEN Idle("processFrame", outcome)
          ELSE \E hs \in HandLists, lm \in AppHands, coins \in AppCoins,
                  g \in Progress :
            LET snd == HandSound(app, state, soundEngine, hs, lm, g)
                score == MatchScoreAfter(state, hs, lm)
                r == CalculateRecordVelocity(FreshRecord(lm))
            IN /\ DoUpdateHands(hs, coins, "mixed")
               /\ state' = [state EXCEPT !.currentHands = hs,
                                         !.matchScore = score]
               /\ matchScore' = IF hs # <<>> /\ state.mode = "learn"
                                  THEN score ELSE matchScore
               /\ soundEngine' = snd.engine
               /\ sLog' = snd.log
               /\ IF hs # <<>> /\ state.musicPlaying
                    THEN /\ handRecord' = r.hand
                         /\ vCall' = [variant |-> "record", side |-> "left",
                                      landmarks |-> lm, first |-> TRUE,
                                      ret |-> r.ret, otherBefore |-> NoHand,
                                      before |-> lastFrame["record"]]
                         /\ lastFrame' =
                              [lastFrame EXCEPT !["record"] = Hand(lm)]
                         /\ UNCHANGED prevLandmarks
                    ELSE UNCHANGED velVars
               /\ aCall' = Result("handleHandResults", "ok", hs, lm, NoPose,
                                  <<[hands |-> hs, pose |-> NoPose]>>, FALSE)
               /\ UNCHANGED <<phase, decayRule, matchVars, engine, sCall,
                              sCalls, app, ctlVars>>

\* processPose of the two-tracker application: PoseTracker.sendFrame,
\* processResults, handleArmResults.  Whether a handler that throws inside
\* the results listener rejects the send, and so ends the loop, is the
\* landmark library's choice.
PoseFrame ==
  /\ app = "twoTracker"
  /\ tracker.poseLoop
  /\ events < MaxEvents
  /\ events' = events + 1
  /\ \E outcome \in SendOutcomes, rejects \in BOOLEAN :
       IF ~tracker.running
         THEN Idle("processPose", "stopped") /\ UNCHANGED tracker
       ELSE IF outcome # "ok"
         THEN /\ Idle("processPose", outcome)
              /\ tracker' = [tracker EXCEPT !.poseLoop = outcome # "failed"]
       ELSE \E pose \in AppPoses(PoseUp), g \in Progress :
         LET snd == PoseSound(app, state, soundEngine, pose, g)
         IN /\ state' = [state EXCEPT !.currentPose = pose]
            /\ soundEngine' = snd.engine
            /\ sLog' = snd.log
            /\ tracker' = [tracker EXCEPT
                             !.poseLoop = ~(snd.threw /\ rejects)]
            /\ aCall' = Result("handleArmResults", "ok", <<>>, <<>>, pose,
                               <<[hands |-> <<>>, pose |-> pose]>>, snd.threw)
            /\ UNCHANGED <<visVars, matchVars, velVars, engine, sCall, sCalls,
                           app, matchScore, ctlVars>>

\* HolisticTracker.processFrame: send, processResults, handleTrackingResults;
\* processResults calls the handler inside its try and once more, with an
\* empty result, from its catch
HolisticFrame ==
  /\ app = "holistic"
  /\ tracker.scheduled
  /\ events < MaxEvents
  /\ events' = events + 1
  /\ \E outcome \in SendOutcomes :
       /\ tracker' = [tracker EXCEPT !.scheduled = tracker.running]
       /\ IF ~tracker.running THEN Idle("processFrame", "stopped")
          ELSE IF outcome # "ok" THEN Idle("processFrame", outcome)
          ELSE \E hs \in HandLists, lm \in AppHands, coins \in AppCoins,
                  pose \in AppPoses(HolisticUp), g \in Progress :
            LET hnd == HandSound(app, state, soundEngine, hs, lm, g)
                snd == PoseSound(app, state, hnd.engine, pose, g)
                score == MatchScoreAfter(state, hs, lm)
                r == UpdateHandsResult(hs, coins, "mixed")
                measured == { s \in Sides : /\ state.soundEnabled
                                            /\ hs # <<>>
                                            /\ Has(hs, IF s = "left"
                                                       THEN "Left"
                                                       ELSE "Right") }
                first == [hands |-> hs, pose |-> pose]
                again == [hands |-> <<>>, pose |-> NoPose]
            IN /\ hands' = IF snd.threw THEN <<>> ELSE hs
               /\ medallions' = r.pool
               /\ nextId' = r.nextId
               /\ evictions' = IF snd.threw THEN <<>> ELSE r.evictions
               /\ frames' = frames + (IF snd.threw THEN 2 ELSE 1)
               /\ lastOp' = "updateHands"
               /\ sizeBefore' = IF snd.threw THEN Len(r.pool)
                                ELSE Len(medallions)
               /\ expired' = {}
               /\ state' = [state EXCEPT
                              !.currentHands = IF snd.threw THEN <<>> ELSE hs,
                              !.currentPose = IF snd.threw THEN NoPose
                                              ELSE pose,
                              !.matchScore = score]
               /\ matchScore' = IF hs # <<>> /\ state.mode = "learn"
                                  THEN score ELSE matchScore
               /\ soundEngine' = snd.engine
               /\ sLog' = hnd.log \o snd.log
               /\ prevLandmarks' =
                    LET l == IF "left" \in measured
                               THEN StoreBaseline(prevLandmarks, "left", lm)
                               ELSE prevLandmarks
                    IN IF "right" \in measured
                         THEN StoreBaseline(l, "right", lm) ELSE l
               /\ lastFrame' =
                    [s \in Streams |-> IF s \in measured THEN Hand(lm)
                                       ELSE lastFrame[s]]
               /\ aCall' = Result("handleTrackingResults", "ok", hs, lm, pose,
                                  IF snd.threw THEN <<first, again>>
                                  ELSE <<first>>, snd.threw)
               /\ UNCHANGED <<mode, ticks, switches, drawn, awaiting,
                              switchMark, afterSwitch, phase, decayRule,
                              matchVars, handRecord, vCall, engine, sCall,
                              sCalls, app, ctlVars>>

\* stop() of the trackers
StopTracking ==
  /\ tracker.running
  /\ events < MaxEvents
  /\ events' = events + 1
  /\ tracker' = [tracker EXCEPT !.running = FALSE]
  /\ aCall' = Result("stop", "none", <<>>, <<>>, NoPose, <<>>, FALSE)
  /\ UNCHANGED <<visVars, matchVars, velVars, sndVars, app, state, matchScore,
                 ctlVars>>

NextApp == HandFrame \/ PoseFrame \/ HolisticFrame \/ StopTracking

SpecApp == InitSession /\ [][NextApp]_vars

-----------------------------------------------------------------------------
(* Key presses *)

Pressed(key) ==
  [key |-> key, n |-> kCall.n + 1, modeBefore |-> state.mode,
   before |-> state.currentTemplate, prevKey |-> kCall.key,
   beforePrev |-> kCall.before]

\* keys '1' and '2': btnLearn.click() and btnPerform.click()
KeyMode ==
  /\ kCall.n < MaxKeys
  /\ \E key \in {"1", "2"} :
       LET m == IF key = "1" THEN "learn" ELSE "perform"
       IN /\ state' = [state EXCEPT !.mode = m]
          /\ DoSetMode(m)
          /\ kCall' = Pressed(key)
  /\ UNCHANGED <<phase, decayRule, matchVars, velVars, sndVars, app,
                 matchScore, tracker, aCall, events, vTemplate, loop, gCall, audio, handlers, piece>>

\* keys ArrowRight and ArrowLeft
KeyArrow ==
  /\ kCall.n < MaxKeys
  /\ \E key \in {"ArrowRight", "ArrowLeft"} :
       LET next == IF key = "ArrowRight"
                     THEN StepRight(state.currentTemplate)
                     ELSE StepLeft(state.currentTemplate)
       IN /\ kCall' = Pressed(key)
          /\ IF state.mode = "learn"
               THEN /\ state' = [state EXCEPT !.currentTemplate = next]
                    /\ vTemplate' = TemplateArg(next + 1)
               ELSE UNCHANGED <<state, vTemplate>>
  /\ UNCHANGED <<visVars, matchVars, velVars, sndVars, app, matchScore,
                 tracker, aCall, events, loop, gCall, audio, handlers, piece>>

InitKeys ==
  /\ InitVisualizer(<<>>, "learn", "free")
  /\ InitMatch
  /\ InitVelocity
  /\ InitSound
  /\ \E a \in Apps : InitApp(a, "learn", FALSE, FALSE, FALSE)
  /\ InitCtl

NextKeys == KeyMode \/ KeyArrow

SpecKeys == InitKeys /\ [][NextKeys]_vars

-----------------------------------------------------------------------------
(* The lifecycle of a tracker: start(), stop() and the passes of the loop. *)
(* app = "holistic" runs the HolisticTracker, "twoTracker" the HandTracker.*)

InitLifecycle ==
  /\ InitVisualizer(<<>>, "learn", "free")
  /\ InitMatch
  /\ InitVelocity
  /\ InitSound
  /\ \E a \in Apps : InitApp(a, "learn", FALSE, FALSE, FALSE)
  /\ InitCtl

\* a pass entering processFrame while the tracker runs: a send begins when
\* the video is ready, otherwise the next pass is queued
Enter(l, ready) ==
  IF ready
    THEN [l EXCEPT !.sending = @ + 1,
                   !.sentAfterStop = @ \/ l.last = "stop"]
    ELSE [l EXCEPT !.queued = @ + 1]

Scheduled(l) == l.queued + l.sending > 0

\* start(), up to its await of navigator.mediaDevices.getUserMedia
StartCall ==
  /\ loop.calls < MaxLifecycle
  /\ loop' = [loop EXCEPT !.starting = @ + 1, !.calls = @ + 1,
                          !.last = "start"]
  /\ UNCHANGED <<visVars, matchVars, velVars, sndVars, appVars, vTemplate,
                 kCall, gCall, audio, handlers, piece>>

\* start(), from the stream on: srcObject, running = true, processFrame()
StartResume ==
  /\ loop.starting > 0
  /\ \E ready \in BOOLEAN :
       LET l == [loop EXCEPT !.starting = @ - 1, !.liveStreams = @ + 1,
                             !.srcLive = TRUE]
       IN /\ loop' = Enter(l, ready)
          /\ tracker' = [tracker EXCEPT !.running = TRUE, !.scheduled = TRUE]
  /\ UNCHANGED <<visVars, matchVars, velVars, sndVars, app, state, matchScore,
                 aCall, events, vTemplate, kCall, gCall, audio, handlers, piece>>

\* stop(): running = false, the tracks of videoElement.srcObject stopped
TrackerStop ==
  /\ loop.calls < MaxLifecycle
  /\ loop' = [loop EXCEPT !.calls = @ + 1, !.last = "stop",
                          !.sentAfterStop = FALSE,
                          !.liveStreams = IF loop.srcLive THEN @ - 1 ELSE @,
                          !.srcLive = FALSE]
  /\ tracker' = [tracker EXCEPT !.running = FALSE]
  /\ UNCHANGED <<visVars, matchVars, velVars, sndVars, app, state, matchScore,
                 aCall, events, vTemplate, kCall, gCall, audio, handlers, piece>>

\* a queued requestAnimationFrame callback runs processFrame
FrameFire ==
  /\ loop.queued > 0
  /\ \E ready \in BOOLEAN :
       LET l == [loop EXCEPT !.queued = @ - 1]
       IN /\ loop' = IF tracker.running THEN Enter(l, ready) ELSE l
          /\ tracker' = [tracker EXCEPT !.scheduled = Scheduled(loop')]
  /\ UNCHANGED <<visVars, matchVars, velVars, sndVars, app, state, matchScore,
                 aCall, events, vTemplate, kCall, gCall, audio, handlers, piece>>

\* a send settles: processFrame goes on to requestAnimationFrame, unless
\* the HandTracker's send rejected
SendSettles ==
  /\ loop.sending > 0
  /\ \E failed \in BOOLEAN :
       /\ loop' = [loop EXCEPT
                     !.sending = @ - 1,
                     !.queued = IF failed /\ app = "twoTracker"
                                  THEN @ ELSE @ + 1]
       /\ tracker' = [tracker EXCEPT !.scheduled = Scheduled(loop')]
  /\ UNCHANGED <<visVars, matchVars, velVars, sndVars, app, state, matchScore,
                 aCall, events, vTemplate, kCall, gCall, audio, handlers, piece>>

NextLifecycle ==
  StartCall \/ StartResume \/ TrackerStop \/ FrameFire \/ SendSettles

SpecLifecycle == InitLifecycle /\ [][NextLifecycle]_vars

-----------------------------------------------------------------------------
(* Calls of the angle functions *)

\* joints on a grid: equal, in line, at right angles, folded back
AnglePoints == { [x |-> px, y |-> py] : px \in {200, 350, 500},
                                        py \in {200, 350, 500} }

\* where the first joint is put
FirstPoints == { p \in AnglePoints : p.y = 200 \/ (p.x = 350 /\ p.y = 350) }

FingerAngles ==
  /\ \E mcp \in FirstPoints, pip \in AnglePoints, tip \in AnglePoints :
       gCall' = [op |-> "calculateFingerAngles", a |-> mcp, b |-> pip,
                 c |-> tip, ret |-> CalculateFingerAngle(mcp, pip, tip)]
  /\ UNCHANGED <<visVars, matchVars, velVars, sndVars, appVars, vTemplate,
                 kCall, loop, audio, handlers, piece>>

ArmAngle ==
  /\ \E shoulder \in FirstPoints, elbow \in AnglePoints,
        wrist \in AnglePoints :
       gCall' = [op |-> "calculateArmAngle", a |-> shoulder, b |-> elbow,
                 c |-> wrist,
                 ret |-> CalculateArmAngle(shoulder, elbow, wrist)]
  /\ UNCHANGED <<visVars, matchVars, velVars, sndVars, appVars, vTemplate,
                 kCall, loop, audio, handlers, piece>>

NextAngle == FingerAngles \/ ArmAngle

SpecAngle == InitConstructed /\ [][NextAngle]_vars

-----------------------------------------------------------------------------
(* Clicks on the Sound and the Synth button.  A handler in flight waits at *)
(* one of its awaits: "toneStart" (Tone.start() inside start()),           *)
(* "playToneStart" (Tone.start() inside playRecordedMusic()) or "loaded"   *)
(* (Tone.loaded()).  Which of several waiting handlers resumes first is    *)
(* the browser's choice.                                                   *)

InitButtons ==
  /\ InitVisualizer(<<>>, "learn", "free")
  /\ InitMatch
  /\ InitVelocity
  /\ \E a \in Apps :
       /\ InitApp(a, "learn", FALSE, FALSE, TRUE)
       /\ engine = IF a = "twoTracker" THEN "stems" ELSE "player"
  /\ soundEngine = NewEngine(FALSE, FALSE, FALSE)
  /\ sLog = <<>>
  /\ sCall = NoSoundCall
  /\ sCalls = 0
  /\ InitCtl

Clicked(btn, waits) ==
  [n |-> handlers.n + 1,
   pending |-> handlers.pending \o waits,
   last |-> btn,
   overlapped |-> handlers.overlapped \/ handlers.pending # <<>>]

Without(i) ==
  [j \in 1..(Len(handlers.pending) - 1) |->
     IF j < i THEN handlers.pending[j] ELSE handlers.pending[j + 1]]

\* btnSound click, up to the handler's first await
ClickSound ==
  /\ handlers.n < MaxClicks
  /\ state' = [state EXCEPT !.soundEnabled = ~state.soundEnabled]
  /\ IF ~state.soundEnabled
       THEN /\ handlers' =
                 Clicked("sound",
                         <<[btn |-> "sound",
                            pc |-> IF soundEngine.isStarted
                                     THEN "playToneStart" ELSE "toneStart"]>>)
            /\ sLog' = <<>>
            /\ UNCHANGED <<soundEngine, audio>>
       ELSE LET r == StopRecordedMusic(engine, soundEngine)
                t == StopEngine(r.engine, audio)
            IN /\ soundEngine' = t.engine
               /\ audio' = t.audio
               /\ sLog' = r.log
               /\ handlers' = Clicked("sound", <<>>)
  /\ UNCHANGED <<visVars, matchVars, velVars, engine, sCall, sCalls, app,
                 matchScore, tracker, aCall, events, vTemplate, kCall, loop,
                 gCall, piece>>

\* btnMusic click of the two-tracker application, up to its first await
ClickSynth ==
  /\ app = "twoTracker"
  /\ handlers.n < MaxClicks
  /\ state' = [state EXCEPT !.musicPlaying = ~state.musicPlaying]
  /\ IF ~state.musicPlaying /\ ~soundEngine.isStarted
       THEN /\ handlers' = Clicked("synth",
                                   <<[btn |-> "synth", pc |-> "toneStart"]>>)
            /\ UNCHANGED audio
       ELSE /\ handlers' = Clicked("synth", <<>>)
            /\ audio' = SetRhythm(audio, ~state.musicPlaying)
  /\ sLog' = <<>>
  /\ UNCHANGED <<visVars, matchVars, velVars, engine, soundEngine, sCall,
                 sCalls, app, matchScore, tracker, aCall, events, vTemplate,
                 kCall, loop, gCall, piece>>

\* a waiting handler resumes and runs to its next await or to its end
Resume ==
  /\ \E i \in 1..Len(handlers.pending) :
       LET h == handlers.pending[i]
           g == StartGraph(soundEngine, audio)
           r == IF h.pc = "playToneStart"
                  THEN PlayRecordedCheck(engine, soundEngine)
                  ELSE PlayRecordedStart(engine, soundEngine)
           goes == IF h.pc = "toneStart"
                     THEN IF h.btn = "sound" THEN "playToneStart" ELSE "end"
                   ELSE IF h.pc = "playToneStart" /\ ~r.done THEN "loaded"
                   ELSE "end"
       IN /\ IF h.pc = "toneStart"
               THEN /\ soundEngine' = g.engine
                    /\ audio' = IF h.btn = "synth"
                                  THEN SetRhythm(g.audio, TRUE) ELSE g.audio
                    /\ sLog' = <<>>
               ELSE /\ soundEngine' = r.engine
                    /\ sLog' = r.log
                    /\ UNCHANGED audio
          /\ handlers' =
               [handlers EXCEPT
                  !.last = h.btn,
                  !.pending = IF goes = "end" THEN Without(i)
                              ELSE [handlers.pending EXCEPT ![i].pc = goes]]
  /\ UNCHANGED <<visVars, matchVars, velVars, engine, sCall, sCalls, appVars,
                 vTemplate, kCall, loop, gCall, piece>>

\* the single-tracker application with its camera loop running, the sound
\* on and the music playing; frames and clicks on the Sound button come in
\* any order
InitCache ==
  InitSession /\ app = "holistic" /\ state.soundEnabled /\ mode = "learn"

\* btnSound clicked, on and off
ToggleSound == handlers.n < MaxToggles /\ ClickSound

NextCache == HolisticFrame \/ ToggleSound \/ Resume

SpecCache == InitCache /\ [][NextCache]_vars

NextButtons == ClickSound \/ ClickSynth \/ Resume

SpecButtons == InitButtons /\ [][NextButtons]_vars

-----------------------------------------------------------------------------
(* The life of one medallion in detail *)

\* draws of this.p.random(n) as fractions: always the first color left,
\* always the last, the middle one, and a stream that varies
ColorDraws ==
  { [i \in 1..5 |-> d] : d \in {0, 500, 999} } \cup { <<0, 999, 500, 250, 750>> }

SpawnPiece ==
  /\ ~piece.present
  /\ \E r \in {2000, 2999, 3500, 5999}, draws \in ColorDraws,
        seed \in {0, 999}, decay \in {DecayLo, DecayHi - 1},
        vy \in {-500, 1000} :
       LET m == Layered(r, draws, seed, decay, vy)
       IN piece' = [present |-> TRUE, m |-> m, spawned |-> m, ticks |-> 0]
  /\ UNCHANGED <<visVars, matchVars, velVars, sndVars, appVars, vTemplate,
                 kCall, loop, gCall, audio, handlers>>

TickPiece ==
  /\ piece.present
  /\ piece' = IF Expired(Drift(piece.m)) THEN NoPiece
              ELSE [piece EXCEPT !.m = Drift(piece.m), !.ticks = @ + 1]
  /\ UNCHANGED <<visVars, matchVars, velVars, sndVars, appVars, vTemplate,
                 kCall, loop, gCall, audio, handlers>>

NextLayers == SpawnPiece \/ TickPiece

SpecLayers == InitConstructed /\ [][NextLayers]_vars

-----------------------------------------------------------------------------
(* Claims about the medallion pool *)

\* C1: whenever an operation of the Visualizer has returned, the pool holds
\* at most 80 medallions.
C1_PoolWithinCap == Len(medallions) <= PoolCap

\* a callback ran into the cap, shifted entries out and left a full pool
C1_Witness ==
  /\ lastOp = "updateHands"
  /\ evictions # <<>>
  /\ Len(medallions) = PoolCap

\* C2 as stated: at the first p.draw after a setMode the pool is empty,
\* whatever ran in between.
C2_EmptyAtFirstTick ==
  (lastOp = "draw" /\ afterSwitch) => sizeBefore = 0

\* C2 amended: the pool is empty when setMode returns, and until (and at)
\* the first p.draw after the switch it holds only medallions spawned
\* after the switch, so it is empty unless a callback spawned in between.
C2_NoCarryOver ==
  /\ lastOp = "setMode" => Len(medallions) = 0
  /\ awaiting => \A i \in 1..Len(medallions) : medallions[i].id >= switchMark
  /\ (lastOp = "draw" /\ afterSwitch) =>
        /\ \A i \in 1..Len(drawn) : drawn[i].id >= switchMark
        /\ sizeBefore <= nextId - switchMark

\* a switch that cleared a non-empty pool, followed by its first render tick
C2_Witness ==
  /\ lastOp = "draw"
  /\ afterSwitch
  /\ switchMark > 1
  /\ Len(drawn) > 0

\* C3: no medallion whose life is <= 0 is left in the pool by an update
\* tick, and none is drawn.
C3_ExpiredRemoved == LivePool(medallions) /\ LivePool(drawn)

\* an update tick spliced expired medallions out and kept others
C3_Witness ==
  /\ lastOp = "draw"
  /\ expired # {}
  /\ Len(medallions) > 0

\* C4: every entry shifted out at the cap is the earliest-spawned entry of
\* the pool at that moment, and the pool is ordered by spawn time.
C4_EvictsOldest ==
  /\ \A k \in 1..Len(evictions) : evictions[k].id = evictions[k].oldest
  /\ \A i \in 1..Len(medallions) - 1 : medallions[i].id < medallions[i + 1].id

\* evictions that ran across a gap left by an expiry and that took an entry
\* with more life left than another entry of the pool
C4_Witness ==
  /\ \E k \in 1..Len(evictions) - 1 :
        evictions[k].id + 1 < evictions[k + 1].id
  /\ \E k \in 1..Len(evictions) : evictions[k].fresher

\* C5: in the saturation scenario the pool never exceeds 80 and, from the
\* frame in which it reaches 80, holds exactly 80 after every operation.
ConvergeFrame == PoolCap \div (2 * TipsPerHand)

C5_StaysAtCap ==
  /\ Len(medallions) <= PoolCap
  /\ frames >= ConvergeFrame => Len(medallions) = PoolCap
  /\ frames < ConvergeFrame => Len(medallions) = frames * 2 * TipsPerHand

\* the end of the last frame of the run
C5_Witness ==
  /\ frames = ScenarioFrames
  /\ lastOp = "draw"
  /\ Len(medallions) = PoolCap

\* C6: a medallion enters the pool with life 1, holds life 1 minus its own
\* fixed positive decay for every update tick since its spawn (so its life
\* only falls), and an entry that left the pool never comes back: whatever
\* is new in the pool carries a serial number never used before.
C6_Lifecycle ==
  /\ [](\A i \in 1..Len(medallions) :
          /\ medallions[i].decay > 0
          /\ medallions[i].life
               = LifeOne - (ticks - medallions[i].born) * medallions[i].decay)
  /\ [][ LET before == Ids(medallions)
         IN \A i \in 1..Len(medallions') :
              \/ medallions'[i].id \in before
              \/ /\ medallions'[i].id >= nextId
                 /\ medallions'[i].life = LifeOne ]_vars

\* a pool holding a medallion that aged twice and one that aged once
C6_Witness ==
  /\ lastOp = "draw"
  /\ \E i \in 1..Len(medallions) :
        medallions[i].life = LifeOne - 2 * medallions[i].decay
  /\ \E i \in 1..Len(medallions) :
        medallions[i].life = LifeOne - medallions[i].decay

-----------------------------------------------------------------------------
(* Claims about the template matcher *)

\* C7: getClosestTemplate returns the number 0, and throws nothing, when
\* the hand or the template is absent; findBestMatch of an absent hand
\* reports score 0 and throws nothing.
C7_AbsentScoresZero ==
  /\ (mOp = "getClosestTemplate"
        /\ (~mHand.present \/ ~TemplateArg(mTemplate).present))
       => mResult.status = "ok" /\ mResult.score = 0
  /\ (mOp = "findBestMatch" /\ ~mHand.present)
       => mResult.status = "ok" /\ mResult.score = 0

\* a hand was scored against an absent template
C7_Witness ==
  /\ mOp = "getClosestTemplate"
  /\ mHand.present
  /\ mTemplate = 0
  /\ mResult = Returned(0)

\* every landmark of a lies (dx, dy) from the same landmark of b
MovedBy(a, b, dx, dy) ==
  \A i \in 1..NumLandmarks : a[i].x - b[i].x = dx /\ a[i].y - b[i].y = dy

\* every landmark of a lies at least 0.25 from the same landmark of b
AllFar(a, b) ==
  \A i \in 1..NumLandmarks :
    (a[i].x - b[i].x) * (a[i].x - b[i].x)
      + (a[i].y - b[i].y) * (a[i].y - b[i].y) >= 250 * 250

ScoreOf(hand, k) == GetClosestTemplate(hand, TemplateArg(k)).score

TopScore(hand) ==
  CHOOSE v \in {ScoreOf(hand, k) : k \in TemplateIndex} :
    \A k \in TemplateIndex : ScoreOf(hand, k) <= v

Earliest(hand) ==
  CHOOSE k \in TemplateIndex :
    /\ ScoreOf(hand, k) = TopScore(hand)
    /\ \A j \in 1..(k - 1) : ScoreOf(hand, j) < TopScore(hand)

\* C9 as stated: for every hand findBestMatch returns the earliest of the
\* templates with the highest score, and that score.
C9_AlwaysATemplate ==
  (mOp = "findBestMatch" /\ mHand.present) =>
    /\ mResult.score = TopScore(mHand)
    /\ mResult.template = Earliest(mHand)

\* C9 amended: that holds when the highest score is above 0; when every
\* template scores 0 findBestMatch returns no template (null), score 0.
C9_BestOrNone ==
  (mOp = "findBestMatch" /\ mHand.present) =>
    /\ mResult.status = "ok"
    /\ mResult.score = TopScore(mHand)
    /\ TopScore(mHand) > 0 => mResult.template = Earliest(mHand)
    /\ TopScore(mHand) = 0 => mResult.template = 0

\* two templates shared the highest score and the earlier one was returned
C9_Witness ==
  /\ mOp = "findBestMatch"
  /\ mHand.present
  /\ mResult.score > 0
  /\ \E k \in TemplateIndex :
        k > mResult.template /\ ScoreOf(mHand, k) = mResult.score

-----------------------------------------------------------------------------
(* Claims about the velocity cache *)

\* C10: a velocity computation for a side without a baseline returns 0,
\* stores the hand's landmarks as the baseline of that side and leaves the
\* other side's baseline as it was; in the two-tracker app it returns 0
\* and stores the landmarks in the hand record.
C10_FirstCallZero ==
  /\ (vCall.variant = "side" /\ vCall.first) =>
        /\ vCall.ret = 0
        /\ prevLandmarks[vCall.side] = Hand(vCall.landmarks)
        /\ prevLandmarks[OtherSide(vCall.side)] = vCall.otherBefore
  /\ (vCall.variant = "record" /\ vCall.first) =>
        /\ vCall.ret = 0
        /\ handRecord.prevLandmarks = Hand(vCall.landmarks)

\* the first right hand arrived when the left side had a baseline already
C10_Witness ==
  /\ vCall.variant = "side"
  /\ vCall.first
  /\ vCall.side = "right"
  /\ vCall.otherBefore.present
  /\ vCall.otherBefore.landmarks # vCall.landmarks

\* the landmarks of a lie the same distance 0.005 u from those of b
Displaced(a, b, u) ==
  \/ MovedBy(a, b, 3 * u, 4 * u)
  \/ MovedBy(a, b, -3 * u, -4 * u)

\* C11: when a stream delivers the same hand on two consecutive frames with
\* every landmark displaced by d = 0.005 u, the velocity computed on the
\* second frame is min(1, 100 d), in the single-tracker app and in the
\* two-tracker app alike.
C11_VelocityFollowsDisplacement ==
  \A u \in 0..MaxShift :
    (vCall.variant # "none" /\ vCall.before.present
       /\ Displaced(vCall.landmarks, vCall.before.landmarks, u))
      => vCall.ret = Min(NumLandmarks * 50 * u * Sensitivity, VelocityOne)

\* C11 for the side-keyed cache of the single-tracker app alone
C11_SideVelocityFollows ==
  \A u \in 0..MaxShift :
    (vCall.variant = "side" /\ vCall.before.present
       /\ Displaced(vCall.landmarks, vCall.before.landmarks, u))
      => vCall.ret = Min(NumLandmarks * 50 * u * Sensitivity, VelocityOne)

\* the two-tracker app measured a hand that had moved by 0.005 since the
\* previous frame
C11_Witness ==
  /\ vCall.variant = "record"
  /\ vCall.before.present
  /\ Displaced(vCall.landmarks, vCall.before.landmarks, 1)

-----------------------------------------------------------------------------
(* Claims about the SoundEngine *)

\* the positions of the note triggers in the audio log of the last call
Triggers == { i \in 1..Len(sLog) : sLog[i].param = "note" }

\* the values the last call ramped `param` to
RampsOf(param) == { sLog[i].value : i \in { j \in 1..Len(sLog) : sLog[j].param = param } }

\* the scale step a fingertip height belongs to: step i covers the heights
\* 1 - y in [i/10, (i+1)/10), the top step everything above, the bottom
\* step everything below
StepOf(y) ==
  IF y <= 0 THEN 9
  ELSE IF y >= 1000 THEN 0
  ELSE CHOOSE i \in 0..9 : i * 100 <= 1000 - y /\ 1000 - y < (i + 1) * 100

TipHeight(landmarks, k) == landmarks[tips[k] + 1].y

\* every coordinate of the landmarks lies in [0, 1]
Normalized(landmarks) ==
  \A i \in 1..Len(landmarks) :
    /\ landmarks[i].x \in 0..1000
    /\ landmarks[i].y \in 0..1000

\* C12: updateFromHand triggers a finger's note only when the mapped note
\* differs from that finger's last-triggered note and velocity > 0.1;
\* lastNotes[finger] changes only on such a trigger, to the triggered note;
\* a call with velocity 0 and every other SoundEngine call trigger nothing.
C12_TriggerNeedsChangeAndMove ==
  /\ sCall.op # "updateFromHand" =>
       /\ Triggers = {}
       /\ soundEngine.lastNotes = sCall.lastBefore
  /\ sCall.op = "updateFromHand" =>
       /\ \A i \in Triggers :
            \E k \in 1..Len(fingerNames) :
              /\ sLog[i].finger = fingerNames[k]
              /\ sLog[i].note # sCall.lastBefore[k]
              /\ sLog[i].note = NoteFor(TipHeight(sCall.landmarks, k))
              /\ sCall.velocity > NoteThreshold
       /\ \A k \in 1..Len(fingerNames) :
            soundEngine.lastNotes[k] # sCall.lastBefore[k] =>
              \E i \in Triggers :
                /\ sLog[i].finger = fingerNames[k]
                /\ sLog[i].note = soundEngine.lastNotes[k]
       /\ sCall.velocity = 0 => Triggers = {}

\* a finger whose last note was triggered before moved to another note with
\* a velocity just above the threshold, while another finger kept its note
C12_Witness ==
  /\ sCall.op = "updateFromHand"
  /\ sCall.velocity = NoteThreshold + 1
  /\ \E i \in Triggers, k \in 1..Len(fingerNames) :
       /\ sLog[i].finger = fingerNames[k]
       /\ sCall.lastBefore[k] # Undefined
  /\ \E k \in 1..Len(fingerNames) :
       /\ sCall.lastBefore[k] # Undefined
       /\ soundEngine.lastNotes[k] = sCall.lastBefore[k]

\* C13: the note updateFromHand passes to a synth is the PENTATONIC entry of
\* the step the fingertip height falls in, the top entry for y <= 0 and the
\* bottom entry for y >= 1, and never undefined; after a call that moves
\* enough every finger's last note is that entry.
C13_NoteInScale ==
  sCall.op = "updateFromHand" =>
    /\ \A i \in Triggers :
         /\ \E n \in 1..Len(PENTATONIC) : sLog[i].note = PENTATONIC[n]
         /\ \E k \in 1..Len(fingerNames) :
              /\ sLog[i].finger = fingerNames[k]
              /\ sLog[i].note
                   = PENTATONIC[StepOf(TipHeight(sCall.landmarks, k)) + 1]
    /\ (soundEngine.isStarted /\ sCall.velocity > NoteThreshold) =>
         \A k \in 1..Len(fingerNames) :
           soundEngine.lastNotes[k]
             = PENTATONIC[StepOf(TipHeight(sCall.landmarks, k)) + 1]

\* one call triggered the top note for a tip on the top edge (raw index 10)
\* and above it, and the bottom note for a tip below the frame (raw index -5)
C13_Witness ==
  /\ sCall.op = "updateFromHand"
  /\ \E i \in Triggers :
       /\ sLog[i].finger = "thumb"
       /\ TipHeight(sCall.landmarks, 1) = 0
       /\ sLog[i].note = "D5"
  /\ \E i \in Triggers :
       /\ sLog[i].finger = "middle"
       /\ TipHeight(sCall.landmarks, 3) < 0
       /\ sLog[i].note = "D5"
  /\ \E i \in Triggers :
       /\ sLog[i].finger = "ring"
       /\ TipHeight(sCall.landmarks, 4) > 1000
       /\ sLog[i].note = "E3"

\* C15: every reverb wet target the engine issues lies in [0, 0.8]: an arm
\* or pose update never asks for more than 0.8, whatever the wet value it
\* starts from, and a hand update with coordinates in [0, 1] never asks
\* for more than 0.6.
C15_ReverbWithinCeiling ==
  \A wet \in RampsOf("reverb") :
    /\ sCall.op \in {"updateFromPose", "updateFromArms"} =>
         wet >= 0 /\ wet <= ReverbCeiling
    /\ sCall.op = "updateFromHand" => wet >= 0 /\ wet <= 6000
    /\ (sCall.op = "updateRightHand" /\ Normalized(sCall.landmarks)) =>
         wet >= 0 /\ wet <= 6000

\* a pose update found the wet value so high that its boost would pass the
\* ceiling, and asked for exactly 0.8
C15_Witness ==
  /\ sCall.op = "updateFromPose"
  /\ sCall.wetBefore + sCall.pose.armsSpread * 3 > ReverbCeiling
  /\ RampsOf("reverb") = {ReverbCeiling}

\* the last call ran updateStemMix: directly, or from the updateFromHand of
\* music.js while the recorded stems play
MixedStems ==
  \/ sCall.op = "updateStemMix"
  \/ /\ sCall.op = "updateFromHand"
     /\ engine = "stems"
     /\ soundEngine.isStarted
     /\ soundEngine.isPlayingRecorded

\* C16: for a wrist (x, y) in [0, 1] x [0, 1] updateStemMix sets the drums
\* volume to min(1, 1 - 0.7x + boostD) and the melody volume to
\* min(1, 0.3 + 0.7x + boostM), where the boost (1 - y) * 0.3 goes to the
\* drums alone when x < 0.5 and to the melody alone when x >= 0.5; both
\* volumes lie in [0.3, 1].
C16_StemMix ==
  MixedStems =>
    LET x == sCall.landmarks[1].x
        y == sCall.landmarks[1].y
        boost == 3 * (1000 - y)
    IN (x \in 0..1000 /\ y \in 0..1000) =>
         /\ x < 500 =>
              /\ soundEngine.drumsVolume
                   = Min(VolumeOne, VolumeOne - 7 * x + boost)
              /\ soundEngine.melodyVolume = 3000 + 7 * x
         /\ x >= 500 =>
              /\ soundEngine.drumsVolume = VolumeOne - 7 * x
              /\ soundEngine.melodyVolume
                   = Min(VolumeOne, 3000 + 7 * x + boost)
         /\ soundEngine.drumsVolume \in 3000..VolumeOne
         /\ soundEngine.melodyVolume \in 3000..VolumeOne
         /\ RampsOf("drums") = {soundEngine.drumsVolume}
         /\ RampsOf("melody") = {soundEngine.melodyVolume}

\* a wrist exactly in the middle of the frame, below the top: the melody
\* got the boost, the drums none
C16_Witness ==
  /\ MixedStems
  /\ sCall.landmarks[1].x = 500
  /\ sCall.landmarks[1].y = 800
  /\ soundEngine.drumsVolume = 6500
  /\ soundEngine.melodyVolume = 7100

\* C17: after an updateFromHand call that ramps the tempo, the transport's
\* tempo target, which is the target of the call's last tempo ramp, is the
\* mean of 80 + 100 velocity and 80 + 80 (1 - wristY); it lies in [80, 170]
\* for a velocity and a wrist height in [0, 1].
C17_TempoIsMean ==
  (sCall.op = "updateFromHand" /\ RampsOf("tempo") # {}) =>
    LET wristY == sCall.landmarks[1].y
        last == CHOOSE i \in 1..Len(sLog) :
                  /\ sLog[i].param = "tempo"
                  /\ \A j \in (i + 1)..Len(sLog) : sLog[j].param # "tempo"
    IN /\ 2 * sLog[last].value
            = (80000 + 100 * sCall.velocity) + (80000 + 80 * (1000 - wristY))
       /\ soundEngine.tempo = sLog[last].value
       /\ (sCall.velocity \in 0..1000 /\ wristY \in 0..1000) =>
            soundEngine.tempo \in 80000..170000

\* music.js ramped to the velocity estimate 180 first and to the mean 170
\* after it
C17_Witness ==
  /\ sCall.op = "updateFromHand"
  /\ engine = "stems"
  /\ sCall.velocity = 1000
  /\ sCall.landmarks[1].y = 0
  /\ RampsOf("tempo") = {180000, 170000}
  /\ soundEngine.tempo = 170000

-----------------------------------------------------------------------------
(* Claims about the applications and their trackers *)

\* the last pass handled a result with hands in it or without
HandledHands ==
  /\ aCall.outcome = "ok"
  /\ aCall.op \in {"handleHandResults", "handleTrackingResults"}

\* the override is due: sound on, engine started, latest pose both arms up
OverrideDue ==
  /\ soundEngine.isStarted
  /\ state.soundEnabled
  /\ state.currentPose.present
  /\ state.currentPose.bothArmsUp

\* C14 as claimed: while the engine is started and the latest pose result
\* has both arms raised, the filter target is 8000 Hz; no hand-driven ramp
\* of the same or a later callback replaces it.
C14_OverrideHolds ==
  OverrideDue => soundEngine.filter = OpenFilter

\* C14, what the code keeps: when handleArmResults returns from a pose with
\* both arms raised, the filter target is 8000 Hz.
C14_ArmsOpenFilter ==
  (OverrideDue /\ aCall.op = "handleArmResults")
    => /\ soundEngine.filter = OpenFilter
       /\ OpenFilter \in RampsOf("filter")

C14_Witness ==
  /\ OverrideDue
  /\ aCall.op = "handleHandResults"
  /\ aCall.hands # <<>>
  /\ 200 \in RampsOf("filter")
  /\ soundEngine.filter = 200

\* C18 as claimed: every processResults of a tracker delivers exactly one
\* result to the onResults callback.
C18_OneDelivery ==
  aCall.outcome = "ok" => Len(aCall.delivered) = 1

\* C18, what the code keeps: the HandTracker and the PoseTracker deliver
\* exactly one result, the HolisticTracker at least one, the processed one
\* first.
C18_SeparateTrackersOnce ==
  aCall.outcome = "ok"
    => /\ Len(aCall.delivered) >= 1
       /\ aCall.delivered[1] = [hands |-> aCall.hands, pose |-> aCall.pose]
       /\ app = "twoTracker" => Len(aCall.delivered) = 1

C18_Witness ==
  /\ aCall.op = "handleTrackingResults"
  /\ aCall.threw
  /\ Len(aCall.delivered) = 2
  /\ aCall.delivered[2] = [hands |-> <<>>, pose |-> NoPose]

\* C19 as claimed: after a frame with no detected hand was handled, the
\* visualizer's hand list is empty, no medallion was spawned, no audio ramp
\* or note trigger was issued, and the match score of the application and
\* of the visualizer is 0.
C19_NoHandNeutral ==
  (HandledHands /\ aCall.hands = <<>>)
    => /\ hands = <<>>
       /\ nextId = aCall.nextIdBefore
       /\ sLog = <<>>
       /\ state.matchScore = 0
       /\ matchScore = 0

\* C19, what the code keeps: after such a frame the hand list is empty,
\* no medallion was spawned and no audio ramp or trigger was issued.
C19_NoHandQuiet ==
  (HandledHands /\ aCall.hands = <<>>)
    => /\ hands = <<>>
       /\ nextId = aCall.nextIdBefore
       /\ sLog = <<>>

C19_Witness ==
  /\ HandledHands
  /\ aCall.hands = <<>>
  /\ hands = <<>>
  /\ state.matchScore = ScoreOne
  /\ matchScore = ScoreOne

\* C20 as claimed: a send that fails does not end the ingestion loop;
\* processFrame is scheduled again until stop() is called.
C20_LoopSurvivesFailedSend ==
  (aCall.op = "processFrame" /\ aCall.outcome = "failed") => tracker.scheduled

\* C20, what the code keeps: the HolisticTracker's loop is scheduled for as
\* long as the tracker runs.
C20_HolisticKeepsPolling ==
  (app = "holistic" /\ tracker.running) => tracker.scheduled

C20_Witness ==
  /\ app = "twoTracker"
  /\ aCall.op = "processFrame"
  /\ aCall.outcome = "failed"
  /\ tracker.running
  /\ ~tracker.scheduled

-----------------------------------------------------------------------------
(* Claims about the controls *)

\* C22: state.currentTemplate is always an index of templates; ArrowRight
\* and ArrowLeft step it by +1 and -1 with wrap-around in learn mode (Right
\* then Left restores it) and leave it alone in perform mode, the mode keys
\* leave it alone; a template the visualizer holds is
\* templates[state.currentTemplate].
C22_TemplateIndex ==
  LET n == Len(templates)
      c == state.currentTemplate
      b == kCall.before
      learn == kCall.modeBefore = "learn"
  IN /\ c \in 0..(n - 1)
     /\ vTemplate.present => vTemplate = Hand(templates[c + 1])
     /\ (kCall.key = "ArrowRight" /\ learn)
          => c = (IF b = n - 1 THEN 0 ELSE b + 1)
     /\ (kCall.key = "ArrowLeft" /\ learn)
          => c = (IF b = 0 THEN n - 1 ELSE b - 1)
     /\ (kCall.key \in {"ArrowRight", "ArrowLeft"} /\ ~learn) => c = b
     /\ kCall.key \in {"1", "2"} => c = b
     /\ (kCall.key = "ArrowLeft" /\ kCall.prevKey = "ArrowRight" /\ learn)
          => c = kCall.beforePrev

C22_Witness ==
  /\ kCall.key = "ArrowLeft"
  /\ kCall.prevKey = "ArrowRight"
  /\ kCall.modeBefore = "learn"
  /\ kCall.beforePrev = Len(templates) - 1
  /\ kCall.before = 0
  /\ state.currentTemplate = Len(templates) - 1
  /\ vTemplate = Hand(templates[Len(templates)])

-----------------------------------------------------------------------------
(* Claims about the lifecycle of a tracker *)

\* C21 as claimed: after stop() no further frame is sent, the tracker does
\* not run and the camera tracks are stopped; after any sequence of start
\* and stop calls at most one ingestion loop is active.
C21_StopHalts ==
  /\ loop.last = "stop"
       => /\ ~tracker.running
          /\ ~loop.sentAfterStop
          /\ loop.liveStreams = 0
  /\ loop.queued + loop.sending <= 1

\* C21, what the code keeps: while the tracker does not run no send begins
\* and no loop is added; a pass that fires then ends its loop.
C21_HaltedLoopDrains ==
  [][(~tracker.running /\ ~tracker'.running)
       => /\ loop'.sending <= loop.sending
          /\ loop'.queued + loop'.sending <= loop.queued + loop.sending]_vars

C21_Witness ==
  /\ loop.last = "start"
  /\ loop.calls = 3
  /\ loop.starting = 0
  /\ tracker.running
  /\ loop.queued + loop.sending = 2
  /\ loop.liveStreams = 1

-----------------------------------------------------------------------------
(* Claims about the angle functions *)

\* C23: the finger bend angle and the arm angle are a finite number in
\* [0, pi]; three identical points yield a finite value, never NaN.
C23_AngleFinite ==
  gCall.op # "none"
    => /\ ~gCall.ret.nan
       /\ gCall.ret.value \in 0..3142

C23_Witness ==
  /\ gCall.op = "calculateArmAngle"
  /\ gCall.a = gCall.b
  /\ gCall.b = gCall.c
  /\ gCall.ret = Number(1570)

-----------------------------------------------------------------------------
(* Claims about the SoundEngine's lifecycle *)

\* C24: while the engine is not started, updateFromHand, updateLeftHand,
\* updateRightHand, updateFromPose, updateFromArms and playReward change
\* nothing: no ramp, no note trigger, lastNotes and every other field as
\* before.
C24_SilentUntilStarted ==
  [][(/\ ~soundEngine.isStarted
      /\ sCall'.op \in {"updateFromHand", "updateLeftHand", "updateRightHand",
                        "updateFromPose", "updateFromArms", "playReward"})
       => /\ sLog' = <<>>
          /\ soundEngine' = soundEngine]_vars

C24_Witness ==
  /\ ~soundEngine.isStarted
  /\ sCalls = 2
  /\ sCall.op = "updateRightHand"
  /\ sCall.landmarks = templates[1]
  /\ sLog = <<>>
  /\ soundEngine.reverb = 4000

\* C25 as claimed: playRecordedMusic called while isPlayingRecorded is true
\* leaves it true and issues no player start and no player stop.
C25_PlayIdempotent ==
  [][(soundEngine.isPlayingRecorded /\ sCall'.op = "playRecordedMusic")
       => /\ soundEngine'.isPlayingRecorded
          /\ sLog' = <<>>]_vars

\* C25, what the code keeps: the one-player version is idempotent while
\* music plays, and either version starts music that does not play.
C25_PlayerIdempotent ==
  [][sCall'.op = "playRecordedMusic"
       => /\ (engine = "player" /\ soundEngine.isPlayingRecorded)
               => (soundEngine' = soundEngine /\ sLog' = <<>>)
          /\ ~soundEngine.isPlayingRecorded
               => (/\ soundEngine'.isPlayingRecorded
                   /\ sLog' = PlayerEvents(engine, "start"))]_vars

C25_Witness ==
  /\ engine = "stems"
  /\ sCall.op = "playRecordedMusic"
  /\ ~soundEngine.isPlayingRecorded
  /\ sLog = PlayerEvents("stems", "stop")

-----------------------------------------------------------------------------
(* Claims about the Sound and the Synth button *)

Settled == handlers.pending = <<>>

\* C27 as claimed: once all Sound-click handlers have finished, Sound: Off
\* means the engine is not started and no recorded music plays.
C27_EngineMatchesButton ==
  (app = "holistic" /\ Settled /\ ~state.soundEnabled)
    => (~soundEngine.isStarted /\ ~soundEngine.isPlayingRecorded)

\* C27, what the code keeps: when no click arrived while a handler was
\* waiting, the engine and the music follow the button.
C27_SequentialClicksMatch ==
  (app = "holistic" /\ Settled /\ ~handlers.overlapped)
    => /\ soundEngine.isStarted = state.soundEnabled
       /\ soundEngine.isPlayingRecorded = state.soundEnabled

C27_Witness ==
  /\ app = "holistic"
  /\ Settled
  /\ handlers.n = 2
  /\ ~state.soundEnabled
  /\ soundEngine.isStarted
  /\ soundEngine.isPlayingRecorded
  /\ audio.drones = 1

\* C28 as claimed: start() builds the audio graph at most once per started
\* session, so the drones that sound are the one drone stop() releases.
C28_OneGraph ==
  audio.drones = IF soundEngine.isStarted THEN 1 ELSE 0

\* C28, what the code keeps: when no click arrived while a handler was
\* waiting, exactly the drone of the started engine sounds.
C28_SequentialOneGraph ==
  ~handlers.overlapped
    => audio.drones = IF soundEngine.isStarted THEN 1 ELSE 0

C28_Witness ==
  /\ app = "twoTracker"
  /\ Settled
  /\ handlers.n = 3
  /\ audio.built = 2
  /\ ~soundEngine.isStarted
  /\ audio.drones = 1

\* C29 as claimed: with all handlers finished, state.musicPlaying implies
\* that the engine is started and the rhythm part and transport run.
C29_SynthMeansRhythm ==
  (app = "twoTracker" /\ Settled /\ state.musicPlaying)
    => (soundEngine.isStarted /\ audio.rhythm /\ audio.transport)

\* C29, what the code keeps: start() leaves the rhythm stopped, and a
\* Synth: On handler ends with the rhythm and the transport running.
C29_OnlyStartRhythmStarts ==
  [][/\ (audio'.built > audio.built /\ handlers'.last = "sound")
          => (~audio'.rhythm /\ ~audio'.transport)
     /\ (/\ handlers'.last = "synth"
         /\ state'.musicPlaying
         /\ \A i \in 1..Len(handlers'.pending) :
              handlers'.pending[i].btn # "synth")
          => (audio'.rhythm /\ audio'.transport)]_vars

C29_Witness ==
  /\ app = "twoTracker"
  /\ Settled
  /\ ~handlers.overlapped
  /\ state.musicPlaying
  /\ ~state.soundEnabled
  /\ ~soundEngine.isStarted
  /\ ~audio.rhythm

-----------------------------------------------------------------------------
(* Claims about a medallion's layers *)

\* C26: a spawned medallion has 2 to 5 layers whose colors are pairwise
\* distinct entries of the 14-color palette; update ticks leave layers,
\* wobbleSeed and decay (and the horizontal velocity) as spawned.
C26_LayersFixed ==
  piece.present
    => LET layers == piece.m.layers
       IN /\ Len(IKAT_COLORS) = 14
          /\ Len(layers) \in 2..5
          /\ \A i \in 1..Len(layers) :
               \E k \in 1..Len(IKAT_COLORS) : layers[i] = IKAT_COLORS[k]
          /\ \A i, j \in 1..Len(layers) : i # j => layers[i] # layers[j]
          /\ layers = piece.spawned.layers
          /\ piece.m.wobbleSeed = piece.spawned.wobbleSeed
          /\ piece.m.decay = piece.spawned.decay
          /\ piece.m.vx = piece.spawned.vx

C26_Witness ==
  /\ piece.present
  /\ piece.ticks = 3
  /\ Len(piece.m.layers) = 5
  /\ piece.m.layers[1] = "turquoise"
  /\ piece.m.layers[2] = "crimson"
  /\ piece.m.y # piece.spawned.y
  /\ piece.m.life < LifeOne

-----------------------------------------------------------------------------
(* Claims about the per-side cache of previous landmarks *)

\* ghost: this step is a handleTrackingResults that measures side s
Measures(s) ==
  /\ events' = events + 1
  /\ aCall'.op = "handleTrackingResults"
  /\ state.soundEnabled
  /\ Has(aCall'.hands, IF s = "left" THEN "Left" ELSE "Right")

\* C30: a calculateHandVelocity(hand, side) call leaves prevLandmarks[side]
\* equal to that call's landmarks; no other step changes an entry (not a
\* frame without the hand, not a click on the Sound button), and an entry
\* once set is never cleared.
C30_CacheMovesForward ==
  [][\A s \in Sides :
       /\ prevLandmarks'[s] = IF Measures(s) THEN Hand(aCall'.landmarks)
                              ELSE prevLandmarks[s]
       /\ prevLandmarks[s].present => prevLandmarks'[s].present]_vars

\* both sides measured, then the sound switched off and a frame without hands
C30_Witness ==
  /\ prevLandmarks["left"].present
  /\ prevLandmarks["right"].present
  /\ ~state.soundEnabled
  /\ aCall.op = "handleTrackingResults"
  /\ aCall.hands = <<>>

====
